---- MODULE Spec2Model ----
(***************************************************************************)
(* TrianglesDataTextureDepthRenderer: program allocation, validity hash    *)
(* and the per-layer draw protocol (drawLayer), together with the shader   *)
(* source builders.  One renderer instance, one frame context, one scene.  *)
(* Nullable JavaScript values are records so that they can be compared     *)
(* with the objects they stand in for.                                     *)
(***************************************************************************)
EXTENDS Integers, Sequences, FiniteSets, TLC

VARIABLES scene, _program, errors, _hash, locations, frameCtx, nextProgramId,
          lastCall, run, built, programs,
          shaded, plugin, viewer, pluginCall

vars == << scene, _program, errors, _hash, locations, frameCtx, nextProgramId,
           lastCall, run, built, programs,
           shaded, plugin, viewer, pluginCall >>

\* the state of the renderer and of what it draws with
rendererVars == << scene, _program, errors, _hash, locations, frameCtx,
                   nextProgramId, lastCall, run, programs >>
\* the results of the shader builders and of the vertex stage
shaderVars == << built, shaded >>
\* the state of the FastNavPlugin and of the viewer it switches
pluginVars == << plugin, viewer, pluginCall >>

(* ------------------------------ bounds --------------------------------- *)
\* most section planes the scene holds
MaxPlanes == 2
\* largest index count of one bucket of a layer
MaxIndices == 1
\* most Program objects created by the renderer in one behaviour
MaxPrograms == 2
\* most drawLayer calls counted by frameCtx.drawElements in one frame
MaxDraws == 2

(* --------------------------- JavaScript values -------------------------- *)
null == [null |-> TRUE]
undefined == [undefined |-> TRUE]
\* frameCtx.lastProgramId before any program was bound in the frame
NoProgramId == 0
\* id of a program that belongs to some other renderer
OtherProgramId == 99

\* three-component vectors
Vec3(x, y, z) == [x |-> x, y |-> y, z |-> z]
Vec3Zero == Vec3(0, 0, 0)
VecAdd(a, b) == Vec3(a.x + b.x, a.y + b.y, a.z + b.z)
VecSub(a, b) == Vec3(a.x - b.x, a.y - b.y, a.z - b.z)

\* 4x4 matrices, column-major, as the math library stores them
IdentityMat4 == << 1, 0, 0, 0,   0, 1, 0, 0,   0, 0, 1, 0,   0, 0, 0, 1 >>
\* rotation by 90 degrees about Z
RotZMat4 == << 0, 1, 0, 0,   -1, 0, 0, 0,   0, 0, 1, 0,   0, 0, 0, 1 >>
\* its conjugate (inverse rotation)
RotZConjMat4 == << 0, -1, 0, 0,   1, 0, 0, 0,   0, 0, 1, 0,   0, 0, 0, 1 >>

\* math.transformPoint3(m, p)
transformPoint3(m, p) ==
  Vec3(m[1] * p.x + m[5] * p.y + m[9] * p.z + m[13],
       m[2] * p.x + m[6] * p.y + m[10] * p.z + m[14],
       m[3] * p.x + m[7] * p.y + m[11] * p.z + m[15])

\* createRTCViewMat(viewMat, rtcCenter): the result is kept symbolic, as the
\* view matrix it was derived from and the centre it was rebased to
createRTCViewMat(viewMat, rtcCenter) ==
  [rtcViewMatOf |-> viewMat, rtcCenter |-> rtcCenter]

\* getPlaneRTCPos(dist, dir, rtcCenter): the point of the plane nearest to
\* rtcCenter, relative to rtcCenter
getPlaneRTCPos(dist, dir, rtcCenter) ==
  LET rtcCenterToPlaneDist ==
        (dir.x * rtcCenter.x) + (dir.y * rtcCenter.y) + (dir.z * rtcCenter.z) + dist
  IN Vec3(dir.x * (0 - rtcCenterToPlaneDist),
          dir.y * (0 - rtcCenterToPlaneDist),
          dir.z * (0 - rtcCenterToPlaneDist))

\* 2.0 / (Math.log(far + 1.0) / Math.LN2), kept symbolic in far
logDepthBufFC(far) == [logDepthBufFCOf |-> far]

(* ------------------------------ the scene ------------------------------ *)
camera ==
  [ viewMatrix |-> [matrix |-> "camera.viewMatrix"],
    projMatrix |-> "camera.projMatrix",
    eye        |-> Vec3(5, 6, 7),
    project    |-> [matrix |-> "camera.project.matrix", far |-> 1000] ]

\* the section planes a scene is given: one across X, one across Y that is
\* switched off
SectionPlanePool ==
  << [active |-> TRUE,  pos |-> Vec3(1, 0, 0), dir |-> Vec3(1, 0, 0), dist |-> 0 - 1],
     [active |-> FALSE, pos |-> Vec3(0, 2, 0), dir |-> Vec3(0, 1, 0), dist |-> 0 - 2] >>

\* the i-th section plane created in the scene (i counts from 1)
SectionPlaneAt(i) == SectionPlanePool[((i - 1) % Len(SectionPlanePool)) + 1]

SectionPlanesOfLength(n) == [i \in 1..n |-> SectionPlaneAt(i)]

\* every list of at most MaxPlanes section planes
SectionPlaneLists ==
  UNION { [1..n -> { SectionPlanePool[k] : k \in 1..Len(SectionPlanePool) }] :
            n \in 0..MaxPlanes }

Scene(planes, l, e) ==
  [ _sectionPlanesState |-> [sectionPlanes |-> planes],
    logarithmicDepthBufferEnabled |-> l,
    entityOffsetsEnabled |-> e ]

\* every scene configuration
Scenes ==
  { Scene(planes, l, e) : planes \in SectionPlaneLists, l \in BOOLEAN, e \in BOOLEAN }

\* scene._sectionPlanesState.getHash(): derived from the section-plane state
getHash(sectionPlanesState) == Len(sectionPlanesState.sectionPlanes)

(* ---------------------------- shader builders --------------------------- *)
_buildVertexShader(sc) ==
  LET clipping == Len(sc._sectionPlanesState.sectionPlanes) > 0 IN
       << "#version 300 es",
          "// Triangles dataTexture draw vertex shader",
          "#ifdef GL_FRAGMENT_PRECISION_HIGH",
          "precision highp float;",
          "precision highp int;",
          "precision highp usampler2D;",
          "precision highp isampler2D;",
          "precision highp sampler2D;",
          "#else",
          "precision mediump float;",
          "precision mediump int;",
          "precision mediump usampler2D;",
          "precision mediump isampler2D;",
          "precision mediump sampler2D;",
          "#endif",
          "uniform int renderPass;" >>
    \o (IF sc.entityOffsetsEnabled THEN << "in vec3 offset;" >> ELSE << >>)
    \o << "uniform mat4 sceneModelMatrix;",
          "uniform mat4 viewMatrix;",
          "uniform mat4 projMatrix;",
          "uniform highp sampler2D uObjectPerObjectPositionsDecodeMatrix;",
          "uniform highp sampler2D uTexturePerObjectMatrix;",
          "uniform lowp usampler2D uObjectPerObjectColorsAndFlags;",
          "uniform mediump usampler2D uTexturePerVertexIdCoordinates;",
          "uniform highp usampler2D uTexturePerPolygonIdIndices;",
          "uniform mediump usampler2D uTexturePerPolygonIdPortionIds;",
          "uniform vec3 uCameraEyeRtc;",
          "vec3 positions[3];" >>
    \o (IF sc.logarithmicDepthBufferEnabled
        THEN << "uniform float logDepthBufFC;",
               "out float vFragDepth;",
               "out float isPerspective;" >>
        ELSE << >>)
    \o << "bool isPerspectiveMatrix(mat4 m) {",
          "    return (m[2][3] == - 1.0);",
          "}",
          "out highp vec2 vHighPrecisionZW;" >>
    \o (IF clipping
        THEN << "out vec4 vWorldPosition;",
               "flat out uint vFlags2;" >>
        ELSE << >>)
    \o << "void main(void) {",
          "int polygonIndex = gl_VertexID / 3;",
          "int h_packed_object_id_index = (polygonIndex >> 3) & 4095;",
          "int v_packed_object_id_index = (polygonIndex >> 3) >> 12;",
          "int objectIndex = int(texelFetch(uTexturePerPolygonIdPortionIds, ivec2(h_packed_object_id_index, v_packed_object_id_index), 0).r);",
          "ivec2 objectIndexCoords = ivec2(objectIndex % 512, objectIndex / 512);",
          "uvec4 flags = texelFetch (uObjectPerObjectColorsAndFlags, ivec2(objectIndexCoords.x*8+2, objectIndexCoords.y), 0);",
          "uvec4 flags2 = texelFetch (uObjectPerObjectColorsAndFlags, ivec2(objectIndexCoords.x*8+3, objectIndexCoords.y), 0);",
          "if (int(flags.x) != renderPass) {",
          "   gl_Position = vec4(3.0, 3.0, 3.0, 1.0);",
          "   return;",
          "} else {",
          "ivec4 packedVertexBase = ivec4(texelFetch (uObjectPerObjectColorsAndFlags, ivec2(objectIndexCoords.x*8+4, objectIndexCoords.y), 0));",
          "ivec4 packedIndexBaseOffset = ivec4(texelFetch (uObjectPerObjectColorsAndFlags, ivec2(objectIndexCoords.x*8+5, objectIndexCoords.y), 0));",
          "int indexBaseOffset = (packedIndexBaseOffset.r << 24) + (packedIndexBaseOffset.g << 16) + (packedIndexBaseOffset.b << 8) + packedIndexBaseOffset.a;",
          "int h_index = (polygonIndex - indexBaseOffset) & 4095;",
          "int v_index = (polygonIndex - indexBaseOffset) >> 12;",
          "ivec3 vertexIndices = ivec3(texelFetch(uTexturePerPolygonIdIndices, ivec2(h_index, v_index), 0));",
          "ivec3 uniqueVertexIndexes = vertexIndices + (packedVertexBase.r << 24) + (packedVertexBase.g << 16) + (packedVertexBase.b << 8) + packedVertexBase.a;",
          "ivec3 indexPositionH = uniqueVertexIndexes & 4095;",
          "ivec3 indexPositionV = uniqueVertexIndexes >> 12;",
          "mat4 objectInstanceMatrix = mat4 (texelFetch (uTexturePerObjectMatrix, ivec2(objectIndexCoords.x*4+0, objectIndexCoords.y), 0), texelFetch (uTexturePerObjectMatrix, ivec2(objectIndexCoords.x*4+1, objectIndexCoords.y), 0), texelFetch (uTexturePerObjectMatrix, ivec2(objectIndexCoords.x*4+2, objectIndexCoords.y), 0), texelFetch (uTexturePerObjectMatrix, ivec2(objectIndexCoords.x*4+3, objectIndexCoords.y), 0));",
          "mat4 objectDecodeAndInstanceMatrix = objectInstanceMatrix * mat4 (texelFetch (uObjectPerObjectPositionsDecodeMatrix, ivec2(objectIndexCoords.x*4+0, objectIndexCoords.y), 0), texelFetch (uObjectPerObjectPositionsDecodeMatrix, ivec2(objectIndexCoords.x*4+1, objectIndexCoords.y), 0), texelFetch (uObjectPerObjectPositionsDecodeMatrix, ivec2(objectIndexCoords.x*4+2, objectIndexCoords.y), 0), texelFetch (uObjectPerObjectPositionsDecodeMatrix, ivec2(objectIndexCoords.x*4+3, objectIndexCoords.y), 0));",
          "uint solid = texelFetch (uObjectPerObjectColorsAndFlags, ivec2(objectIndexCoords.x*8+7, objectIndexCoords.y), 0).r;",
          "positions[0] = vec3(texelFetch(uTexturePerVertexIdCoordinates, ivec2(indexPositionH.r, indexPositionV.r), 0));",
          "positions[1] = vec3(texelFetch(uTexturePerVertexIdCoordinates, ivec2(indexPositionH.g, indexPositionV.g), 0));",
          "positions[2] = vec3(texelFetch(uTexturePerVertexIdCoordinates, ivec2(indexPositionH.b, indexPositionV.b), 0));",
          "uvec4 color = texelFetch (uObjectPerObjectColorsAndFlags, ivec2(objectIndexCoords.x*8+0, objectIndexCoords.y), 0);",
          "if (color.a == 0u) {",
          "   gl_Position = vec4(3.0, 3.0, 3.0, 1.0);",
          "   return;",
          "};",
          "vec3 normal = normalize(cross(positions[2] - positions[0], positions[1] - positions[0]));",
          "vec3 position;",
          "position = positions[gl_VertexID % 3];",
          "vec3 viewNormal = -normalize((transpose(inverse(viewMatrix*objectDecodeAndInstanceMatrix)) * vec4(normal,1)).xyz);",
          "if (solid != 1u) {",
          "if (isPerspectiveMatrix(projMatrix)) {",
          "vec3 uCameraEyeRtcInQuantizedSpace = (inverse(sceneModelMatrix * objectDecodeAndInstanceMatrix) * vec4(uCameraEyeRtc, 1)).xyz;",
          "if (dot(position.xyz - uCameraEyeRtcInQuantizedSpace, normal) < 0.0) {",
          "position = positions[2 - (gl_VertexID % 3)];",
          "viewNormal = -viewNormal;",
          "}",
          "} else {",
          "if (viewNormal.z < 0.0) {",
          "position = positions[2 - (gl_VertexID % 3)];",
          "viewNormal = -viewNormal;",
          "}",
          "}",
          "}",
          "vec4 worldPosition = sceneModelMatrix * (objectDecodeAndInstanceMatrix * vec4(position, 1.0)); ",
          "vec4 viewPosition = viewMatrix * worldPosition; ",
          "vec4 clipPos = projMatrix * viewPosition;" >>
    \o (IF sc.logarithmicDepthBufferEnabled
        THEN << "vFragDepth = 1.0 + clipPos.w;",
               "isPerspective = float (isPerspectiveMatrix(projMatrix));" >>
        ELSE << >>)
    \o (IF clipping
        THEN << "vWorldPosition = worldPosition;",
               "vFlags2 = flags2.r;" >>
        ELSE << >>)
    \o << "gl_Position = clipPos;",
          "vHighPrecisionZW = gl_Position.zw;",
          "}",
          "}" >>

\* _buildFragmentShader() declaring uniforms only for the section planes that
\* are switched on
_buildFragmentShader_activePlanesOnly(sc) ==
  LET sectionPlanesState == sc._sectionPlanesState
      clipping == Len(sectionPlanesState.sectionPlanes) > 0
      len == Len(sectionPlanesState.sectionPlanes)
      declare[i \in 0..len] ==
        IF i < len /\ ~sectionPlanesState.sectionPlanes[i + 1].active
        THEN declare[i + 1]
        ELSE IF i < len
        THEN << "uniform bool sectionPlaneActive" \o ToString(i) \o ";",
                "uniform vec3 sectionPlanePos" \o ToString(i) \o ";",
                "uniform vec3 sectionPlaneDir" \o ToString(i) \o ";" >> \o declare[i + 1]
        ELSE << >>
      evaluate[i \in 0..len] ==
        IF i < len
        THEN << "if (sectionPlaneActive" \o ToString(i) \o ") {",
                "   dist += clamp(dot(-sectionPlaneDir" \o ToString(i) \o ".xyz, vWorldPosition.xyz - sectionPlanePos" \o ToString(i) \o ".xyz), 0.0, 1000.0);",
                "}" >> \o evaluate[i + 1]
        ELSE << >>
  IN
       << "#version 300 es",
          "// Triangles dataTexture draw fragment shader",
          "#ifdef GL_FRAGMENT_PRECISION_HIGH",
          "precision highp float;",
          "precision highp int;",
          "#else",
          "precision mediump float;",
          "precision mediump int;",
          "#endif",
          "in highp vec2 vHighPrecisionZW;",
          "out vec4 outColor;" >>
    \o (IF sc.logarithmicDepthBufferEnabled
        THEN << "in float isPerspective;",
               "uniform float logDepthBufFC;",
               "in float vFragDepth;" >>
        ELSE << >>)
    \o (IF clipping
        THEN << "in vec4 vWorldPosition;",
               "flat in uint vFlags2;" >>
             \o declare[0]
        ELSE << >>)
    \o << "void main(void) {" >>
    \o (IF clipping
        THEN << "  bool clippable = vFlags2 > 0u;",
               "  if (clippable) {",
               "  float dist = 0.0;" >>
             \o evaluate[0]
             \o << "  if (dist > 0.0) { ",
                    "      discard;",
                    "  }",
                    "}" >>
        ELSE << >>)
    \o (IF sc.logarithmicDepthBufferEnabled
        THEN << "    gl_FragDepth = isPerspective == 0.0 ? gl_FragCoord.z : log2( vFragDepth ) * logDepthBufFC * 0.5;" >>
        ELSE << >>)
    \o << "float fragCoordZ = 0.5 * vHighPrecisionZW[0] / vHighPrecisionZW[1] + 0.5;",
          "    outColor = vec4(vec3(1.0 - fragCoordZ), 1.0); ",
          "}" >>

\* _buildFragmentShader()
_buildFragmentShader(sc) ==
  LET sectionPlanesState == sc._sectionPlanesState
      clipping == Len(sectionPlanesState.sectionPlanes) > 0
      len == Len(sectionPlanesState.sectionPlanes)
      declare[i \in 0..len] ==
        IF i < len
        THEN << "uniform bool sectionPlaneActive" \o ToString(i) \o ";",
                "uniform vec3 sectionPlanePos" \o ToString(i) \o ";",
                "uniform vec3 sectionPlaneDir" \o ToString(i) \o ";" >> \o declare[i + 1]
        ELSE << >>
      evaluate[i \in 0..len] ==
        IF i < len
        THEN << "if (sectionPlaneActive" \o ToString(i) \o ") {",
                "   dist += clamp(dot(-sectionPlaneDir" \o ToString(i) \o ".xyz, vWorldPosition.xyz - sectionPlanePos" \o ToString(i) \o ".xyz), 0.0, 1000.0);",
                "}" >> \o evaluate[i + 1]
        ELSE << >>
  IN
       << "#version 300 es",
          "// Triangles dataTexture draw fragment shader",
          "#ifdef GL_FRAGMENT_PRECISION_HIGH",
          "precision highp float;",
          "precision highp int;",
          "#else",
          "precision mediump float;",
          "precision mediump int;",
          "#endif",
          "in highp vec2 vHighPrecisionZW;",
          "out vec4 outColor;" >>
    \o (IF sc.logarithmicDepthBufferEnabled
        THEN << "in float isPerspective;",
               "uniform float logDepthBufFC;",
               "in float vFragDepth;" >>
        ELSE << >>)
    \o (IF clipping
        THEN << "in vec4 vWorldPosition;",
               "flat in uint vFlags2;" >>
             \o declare[0]
        ELSE << >>)
    \o << "void main(void) {" >>
    \o (IF clipping
        THEN << "  bool clippable = vFlags2 > 0u;",
               "  if (clippable) {",
               "  float dist = 0.0;" >>
             \o evaluate[0]
             \o << "  if (dist > 0.0) { ",
                    "      discard;",
                    "  }",
                    "}" >>
        ELSE << >>)
    \o (IF sc.logarithmicDepthBufferEnabled
        THEN << "    gl_FragDepth = isPerspective == 0.0 ? gl_FragCoord.z : log2( vFragDepth ) * logDepthBufFC * 0.5;" >>
        ELSE << >>)
    \o << "float fragCoordZ = 0.5 * vHighPrecisionZW[0] / vHighPrecisionZW[1] + 0.5;",
          "    outColor = vec4(vec3(1.0 - fragCoordZ), 1.0); ",
          "}" >>

\* the uniforms of section plane i declared by buildFragment(), direction
\* before position
declareSectionPlane_dirBeforePos(i) ==
  << "uniform bool sectionPlaneActive" \o ToString(i) \o ";",
     "uniform vec3 sectionPlaneDir" \o ToString(i) \o ";",
     "uniform vec3 sectionPlanePos" \o ToString(i) \o ";" >>

\* the uniforms of section plane i declared by buildFragment() of the
\* instancing occlusion shader source
declareSectionPlane(i) ==
  << "uniform bool sectionPlaneActive" \o ToString(i) \o ";",
     "uniform vec3 sectionPlanePos" \o ToString(i) \o ";",
     "uniform vec3 sectionPlaneDir" \o ToString(i) \o ";" >>

\* buildFragment(scene) of the instancing occlusion shader source;
\* logarithmicDepthBufferSupported is scene.viewer.logarithmicDepthBufferSupported
buildFragment(sc, logarithmicDepthBufferSupported) ==
  LET sectionPlanesState == sc._sectionPlanesState
      clipping == Len(sectionPlanesState.sectionPlanes) > 0
      len == Len(sectionPlanesState.sectionPlanes)
      logDepth == sc.logarithmicDepthBufferEnabled /\ logarithmicDepthBufferSupported
      declare[i \in 0..len] ==
        IF i < len THEN declareSectionPlane(i) \o declare[i + 1] ELSE << >>
      evaluate[i \in 0..len] ==
        IF i < len
        THEN << "if (sectionPlaneActive" \o ToString(i) \o ") {",
                "   dist += clamp(dot(-sectionPlaneDir" \o ToString(i) \o ".xyz, vWorldPosition.xyz - sectionPlanePos" \o ToString(i) \o ".xyz), 0.0, 1000.0);",
                "}" >> \o evaluate[i + 1]
        ELSE << >>
  IN
       << "// Instancing occlusion fragment shader" >>
    \o (IF logDepth THEN << "#extension GL_EXT_frag_depth : enable" >> ELSE << >>)
    \o << "#ifdef GL_FRAGMENT_PRECISION_HIGH",
          "precision highp float;",
          "precision highp int;",
          "#else",
          "precision mediump float;",
          "precision mediump int;",
          "#endif" >>
    \o (IF logDepth
        THEN << "uniform float logDepthBufFC;",
               "varying float vFragDepth;" >>
        ELSE << >>)
    \o (IF clipping
        THEN << "varying vec4 vWorldPosition;",
               "varying vec4 vFlags2;" >>
             \o declare[0]
        ELSE << >>)
    \o << "void main(void) {" >>
    \o (IF clipping
        THEN << "  bool clippable = (float(vFlags2.x) > 0.0);",
               "  if (clippable) {",
               "  float dist = 0.0;" >>
             \o evaluate[0]
             \o << "if (dist > 0.0) { discard; }",
                    "}" >>
        ELSE << >>)
    \o << "   gl_FragColor = vec4(0.0, 0.0, 1.0, 1.0); " >>
    \o (IF logDepth
        THEN << "gl_FragDepthEXT = log2( vFragDepth ) * logDepthBufFC * 0.5;" >>
        ELSE << >>)
    \o << "}" >>

\* _buildShader()
_buildShader(sc) ==
  [vertex |-> _buildVertexShader(sc), fragment |-> _buildFragmentShader(sc)]

(* ------------------------------ Program -------------------------------- *)
\* the error list of a Program whose shaders did not compile
CompileErrors == [messages |-> << "shader failed to compile" >>]

\* new Program(gl, this._buildShader()): a fresh id; errors is set when the
\* driver rejects the shaders (ok = FALSE).  The program is kept with the
\* configuration snapshot its shader text was generated from (builtFrom), the
\* text itself being _buildShader(builtFrom).
Program(sc, id, ok) ==
  [ id        |-> id,
    errors    |-> IF ok THEN null ELSE CompileErrors,
    builtFrom |-> sc ]

\* the shader text a program was compiled from
shaderSource(program) == _buildShader(program.builtFrom)

\* program.getLocation(name)
getLocation(program, name) == [program |-> program.id, name |-> name]

(* ------------------------------ renderer ------------------------------- *)
\* _getHash()
_getHash(sc) == getHash(sc._sectionPlanesState)

\* getValid()
getValid == _hash = _getHash(scene)

\* the uniform locations and sampler names assigned by a successful
\* _allocate(); prev is the table held before (undefined if none)
AllocatedLocations(sc, program, prev) ==
  [ _uRenderPass            |-> getLocation(program, "renderPass"),
    _uPositionsDecodeMatrix |-> getLocation(program, "objectDecodeAndInstanceMatrix"),
    _uSceneModelMatrix      |-> getLocation(program, "sceneModelMatrix"),
    _uViewMatrix            |-> getLocation(program, "viewMatrix"),
    _uProjMatrix            |-> getLocation(program, "projMatrix"),
    _uSectionPlanes         |->
      [ i \in 1..Len(sc._sectionPlanesState.sectionPlanes) |->
          [ active |-> getLocation(program, "sectionPlaneActive" \o ToString(i - 1)),
            pos    |-> getLocation(program, "sectionPlanePos" \o ToString(i - 1)),
            dir    |-> getLocation(program, "sectionPlaneDir" \o ToString(i - 1)) ] ],
    _uLogDepthBufFC         |->
      IF sc.logarithmicDepthBufferEnabled
      THEN getLocation(program, "logDepthBufFC")
      ELSE IF prev = undefined THEN undefined ELSE prev._uLogDepthBufFC,
    uTexturePerObjectPositionsDecodeMatrix |-> "uObjectPerObjectPositionsDecodeMatrix",
    uTexturePerObjectColorsAndFlags        |-> "uObjectPerObjectColorsAndFlags",
    _uTexturePerVertexIdCoordinates        |-> "uTexturePerVertexIdCoordinates",
    _uTexturePerPolygonIdNormals           |-> "uTexturePerPolygonIdNormals",
    _uTexturePerPolygonIdIndices           |-> "uTexturePerPolygonIdIndices",
    _uTexturePerPolygonIdPortionIds        |-> "uTexturePerPolygonIdPortionIds",
    _uTexturePerObjectMatrix               |-> "uTexturePerObjectMatrix",
    _uCameraEyeRtc          |-> getLocation(program, "uCameraEyeRtc") ]

\* _allocate(): the renderer fields after the call, given the fields before
\* (prevErrors, prevLocations), the id the new Program gets and whether its
\* shaders compile
_allocate(sc, id, ok, prevErrors, prevLocations) ==
  LET program == Program(sc, id, ok) IN
  IF program.errors # null
  THEN [ _program  |-> program,
         errors    |-> program.errors,
         locations |-> prevLocations ]
  ELSE [ _program  |-> program,
         errors    |-> prevErrors,
         locations |-> AllocatedLocations(sc, program, prevLocations) ]

\* a field of the location table; every field is undefined until the first
\* successful _allocate()
Field(locs, name) == IF locs = undefined THEN undefined ELSE locs[name]

(* ------------------------- layers handed to drawLayer ------------------- *)
\* view-space inputs are the scene camera's; see camera above
Origins == { Vec3Zero, Vec3(1, 2, 0) }
Positions == { Vec3Zero, Vec3(4, 0, 3) }
Rotations ==
  { [rotationMatrix |-> IdentityMat4, rotationMatrixConjugate |-> IdentityMat4],
    [rotationMatrix |-> RotZMat4, rotationMatrixConjugate |-> RotZConjMat4] }
LayerIndices == 0..1
RenderPasses == { 1 }

\* model.renderFlags.sectionPlanesActivePerLayer: one flag per layer and
\* section plane
ActiveFlagIndices == 0..((Cardinality(LayerIndices) * MaxPlanes) - 1)
ActiveFlagArrays ==
  { [i \in ActiveFlagIndices |-> i % 2 = 0],
    [i \in ActiveFlagIndices |-> i % 3 = 1],
    [i \in ActiveFlagIndices |-> TRUE] }

\* _state.textureState, as the index-texture handles it holds: TRUE for a
\* texture, FALSE for a handle that is absent
TextureState(t8, t16, t32) ==
  [ texturePerPolygonIdIndices8Bits  |-> t8,
    texturePerPolygonIdIndices16Bits |-> t16,
    texturePerPolygonIdIndices32Bits |-> t32 ]
AllTextures == TextureState(TRUE, TRUE, TRUE)

Layer(li, o, p, r, n8, n16, n32, f) ==
  [ layerIndex |-> li,
    _state |-> [ origin |-> o,
                 textureState |-> AllTextures,
                 numIndices8Bits  |-> n8,
                 numIndices16Bits |-> n16,
                 numIndices32Bits |-> n32 ],
    model  |-> [ position |-> p,
                 rotationMatrix |-> r.rotationMatrix,
                 rotationMatrixConjugate |-> r.rotationMatrixConjugate,
                 renderFlags |-> [sectionPlanesActivePerLayer |-> f] ] ]

AllActive == [i \in ActiveFlagIndices |-> TRUE]
IdentityRotation ==
  [rotationMatrix |-> IdentityMat4, rotationMatrixConjugate |-> IdentityMat4]

\* the layers drawn: every placement (origin, position, rotation) of a layer
\* with all planes active; every choice of empty and non-empty index
\* buckets, with a different count in each bucket; and every layer index and
\* flag array
Layers ==
       { Layer(0, o, p, r, MaxIndices, 0, MaxIndices + 2, AllActive) :
           o \in Origins, p \in Positions, r \in Rotations }
  \cup { Layer(0, Vec3Zero, Vec3Zero, IdentityRotation, n8, n16, n32, AllActive) :
           n8 \in {0, MaxIndices}, n16 \in {0, MaxIndices + 1},
           n32 \in {0, MaxIndices + 2} }
  \cup { Layer(li, Vec3(1, 2, 0), Vec3Zero, IdentityRotation, 0, MaxIndices + 1, 0, f) :
           li \in LayerIndices, f \in ActiveFlagArrays }

\* layers one or more of whose index textures are absent, every bucket
\* holding indices
LayersWithAbsentTextures ==
  { [ Layer(0, o, Vec3Zero, IdentityRotation,
            MaxIndices, MaxIndices + 1, MaxIndices + 2, AllActive)
        EXCEPT !._state.textureState = TextureState(t8, t16, t32) ] :
      o \in Origins,
      t8 \in BOOLEAN, t16 \in BOOLEAN, t32 \in BOOLEAN } \
  { [ Layer(0, o, Vec3Zero, IdentityRotation,
            MaxIndices, MaxIndices + 1, MaxIndices + 2, AllActive)
        EXCEPT !._state.textureState = AllTextures ] : o \in Origins }

(* ------------------------------ drawLayer ------------------------------ *)
(* ------------------- the Program objects of the renderer -------------- *)
\* programs is the set of ids of the Programs the renderer created with
\* "new Program" whose GL program is still allocated: neither destroyed by
\* Program.destroy() nor lost with the WebGL context it was created in; the
\* loss of the context is a step of its own, which the renderer learns of
\* only when webglContextRestored() is called

\* "this._program = new Program(gl, this._buildShader())": the Program held
\* before is left as it is
created(progs, id) == progs \cup { id }

\* "this._program.destroy()"
destroyed(progs, id) == progs \ { id }

\* the loss of the WebGL context invalidates every GL program created in it
contextLost(progs) == { }

\* "if (!this._program || !this.getValid())": allocating again when the
\* configuration hash has moved on
mustAllocate_whenInvalid(program) == program = null \/ ~getValid

\* drawLayer: "if (!this._program)"
mustAllocate(program) == program = null

\* the lazy _allocate() without the check of this.errors
returnsOnErrors_never(allocated, errs) == FALSE

\* drawLayer: "if (this.errors) return" after the lazy _allocate()
returnsOnErrors(allocated, errs) == allocated /\ errs # null

\* _bindProgram(frameCtx)
_bindProgram(sc, program, locs) ==
  << << "program.bind", program.id >>,
     << "uniformMatrix4fv", Field(locs, "_uProjMatrix"), camera.project.matrix >> >>
  \o (IF sc.logarithmicDepthBufferEnabled
      THEN << << "uniform1f", Field(locs, "_uLogDepthBufFC"),
                 logDepthBufFC(camera.project.far) >> >>
      ELSE << >>)

\* binding the program in every call
bindIfChanged_always(sc, program, locs, lastProgramId) ==
  [lastProgramId |-> program.id, gl |-> _bindProgram(sc, program, locs)]

\* drawLayer: bind the program when the frame's last program is another one
bindIfChanged(sc, program, locs, lastProgramId) ==
  IF lastProgramId # program.id
  THEN [lastProgramId |-> program.id, gl |-> _bindProgram(sc, program, locs)]
  ELSE [lastProgramId |-> lastProgramId, gl |-> << >>]

\* drawLayer: textureState.bindCommonTextures(...)
bindCommonTextures(program, locs) ==
  << << "bindCommonTextures", program.id,
        Field(locs, "uTexturePerObjectPositionsDecodeMatrix"),
        Field(locs, "_uTexturePerVertexIdCoordinates"),
        Field(locs, "uTexturePerObjectColorsAndFlags"),
        Field(locs, "_uTexturePerObjectMatrix") >> >>

\* rebasing to the unrotated origin
rtcRebase_unrotated(dataTextureLayer) ==
  LET origin == dataTextureLayer._state.origin
      position == dataTextureLayer.model.position
      gotOrigin == origin.x # 0 \/ origin.y # 0 \/ origin.z # 0
      gotPosition == position.x # 0 \/ position.y # 0 \/ position.z # 0
      rtcOrigin == VecAdd(origin, position)
  IN IF gotOrigin \/ gotPosition
     THEN [ calls |-> << << "createRTCViewMat", camera.viewMatrix, rtcOrigin >> >>,
            rtcViewMatrix |-> createRTCViewMat(camera.viewMatrix, rtcOrigin),
            rtcCameraEye  |-> VecSub(camera.eye, rtcOrigin) ]
     ELSE [ calls |-> << >>,
            rtcViewMatrix |-> camera.viewMatrix,
            rtcCameraEye  |-> camera.eye ]

\* drawLayer: the RTC view matrix and camera eye of the call; calls lists the
\* createRTCViewMat invocations made
rtcRebase(dataTextureLayer) ==
  LET origin == dataTextureLayer._state.origin
      position == dataTextureLayer.model.position
      rotationMatrix == dataTextureLayer.model.rotationMatrix
      gotOrigin == origin.x # 0 \/ origin.y # 0 \/ origin.z # 0
      gotPosition == position.x # 0 \/ position.y # 0 \/ position.z # 0
      rtcOrigin == VecAdd(IF gotOrigin
                          THEN transformPoint3(rotationMatrix, origin)
                          ELSE Vec3Zero,
                          position)
  IN IF gotOrigin \/ gotPosition
     THEN [ calls |-> << << "createRTCViewMat", camera.viewMatrix, rtcOrigin >> >>,
            rtcViewMatrix |-> createRTCViewMat(camera.viewMatrix, rtcOrigin),
            rtcCameraEye  |-> VecSub(camera.eye, rtcOrigin) ]
     ELSE [ calls |-> << >>,
            rtcViewMatrix |-> camera.viewMatrix,
            rtcCameraEye  |-> camera.eye ]

\* drawLayer: the matrix, eye, render-pass and log-depth uniform uploads
uploadUniforms(sc, locs, fc, dataTextureLayer, renderPass, rtc) ==
  << << "uniformMatrix4fv", Field(locs, "_uSceneModelMatrix"),
        dataTextureLayer.model.rotationMatrixConjugate >>,
     << "uniformMatrix4fv", Field(locs, "_uViewMatrix"), rtc.rtcViewMatrix >>,
     << "uniformMatrix4fv", Field(locs, "_uProjMatrix"), camera.projMatrix >>,
     << "uniform3fv", Field(locs, "_uCameraEyeRtc"), rtc.rtcCameraEye >>,
     << "uniform1i", Field(locs, "_uRenderPass"), renderPass >> >>
  \o (IF sc.logarithmicDepthBufferEnabled
      THEN << << "uniform1f", Field(locs, "_uLogDepthBufFC"),
                 logDepthBufFC(fc.pickZFar) >> >>
      ELSE << >>)

\* drawLayer: "this._uSectionPlanes[sectionPlaneIndex]" is a TypeError when
\* no _allocate() ever got as far as creating the table
sectionPlanesThrow(sc, locs) ==
  Len(sc._sectionPlanesState.sectionPlanes) > 0 /\ locs = undefined

\* "if (origin)": an array is truthy whatever it holds
truthy(origin) == TRUE

\* the section-plane uploads reading the flags of layer 0 for every layer
uploadSectionPlanes_noBaseIndex(sc, locs, dataTextureLayer) ==
  LET sectionPlanes == sc._sectionPlanesState.sectionPlanes
      numSectionPlanes == Len(sectionPlanes)
      baseIndex == 0
      flags == dataTextureLayer.model.renderFlags.sectionPlanesActivePerLayer
      origin == dataTextureLayer._state.origin
      table == locs._uSectionPlanes
      upload[sectionPlaneIndex \in 0..numSectionPlanes] ==
        IF sectionPlaneIndex >= numSectionPlanes
        THEN << >>
        ELSE (IF (sectionPlaneIndex + 1) \in DOMAIN table
              THEN LET sectionPlaneUniforms == table[sectionPlaneIndex + 1]
                       active == IF (baseIndex + sectionPlaneIndex) \in DOMAIN flags
                                 THEN flags[baseIndex + sectionPlaneIndex]
                                 ELSE FALSE
                       sectionPlane == sectionPlanes[sectionPlaneIndex + 1]
                   IN << << "uniform1i", sectionPlaneUniforms.active,
                            IF active THEN 1 ELSE 0 >> >>
                      \o (IF active
                          THEN << << "uniform3fv", sectionPlaneUniforms.pos,
                                     IF truthy(origin)
                                     THEN getPlaneRTCPos(sectionPlane.dist, sectionPlane.dir, origin)
                                     ELSE sectionPlane.pos >>,
                                  << "uniform3fv", sectionPlaneUniforms.dir,
                                     sectionPlane.dir >> >>
                          ELSE << >>)
              ELSE << >>)
             \o upload[sectionPlaneIndex + 1]
  IN IF numSectionPlanes > 0 THEN upload[0] ELSE << >>

\* drawLayer: the section-plane uniform uploads
uploadSectionPlanes(sc, locs, dataTextureLayer) ==
  LET sectionPlanes == sc._sectionPlanesState.sectionPlanes
      numSectionPlanes == Len(sectionPlanes)
      baseIndex == dataTextureLayer.layerIndex * numSectionPlanes
      flags == dataTextureLayer.model.renderFlags.sectionPlanesActivePerLayer
      origin == dataTextureLayer._state.origin
      table == locs._uSectionPlanes
      upload[sectionPlaneIndex \in 0..numSectionPlanes] ==
        IF sectionPlaneIndex >= numSectionPlanes
        THEN << >>
        ELSE (IF (sectionPlaneIndex + 1) \in DOMAIN table
              THEN LET sectionPlaneUniforms == table[sectionPlaneIndex + 1]
                       active == IF (baseIndex + sectionPlaneIndex) \in DOMAIN flags
                                 THEN flags[baseIndex + sectionPlaneIndex]
                                 ELSE FALSE
                       sectionPlane == sectionPlanes[sectionPlaneIndex + 1]
                   IN << << "uniform1i", sectionPlaneUniforms.active,
                            IF active THEN 1 ELSE 0 >> >>
                      \o (IF active
                          THEN << << "uniform3fv", sectionPlaneUniforms.pos,
                                     IF truthy(origin)
                                     THEN getPlaneRTCPos(sectionPlane.dist, sectionPlane.dir, origin)
                                     ELSE sectionPlane.pos >>,
                                  << "uniform3fv", sectionPlaneUniforms.dir,
                                     sectionPlane.dir >> >>
                          ELSE << >>)
              ELSE << >>)
             \o upload[sectionPlaneIndex + 1]
  IN IF numSectionPlanes > 0 THEN upload[0] ELSE << >>

\* the buckets with the 16-bit draw covering the 8-bit count
drawBuckets_sharedCount(program, locs, state) ==
     (IF state.numIndices8Bits > 0
      THEN << << "bindTriangleIndicesTextures", program.id,
                 Field(locs, "_uTexturePerPolygonIdPortionIds"),
                 Field(locs, "_uTexturePerPolygonIdIndices"), 8 >>,
              << "drawArrays", "TRIANGLES", 0, state.numIndices8Bits >> >>
      ELSE << >>)
  \o (IF state.numIndices16Bits > 0
      THEN << << "bindTriangleIndicesTextures", program.id,
                 Field(locs, "_uTexturePerPolygonIdPortionIds"),
                 Field(locs, "_uTexturePerPolygonIdIndices"), 16 >>,
              << "drawArrays", "TRIANGLES", 0, state.numIndices8Bits >> >>
      ELSE << >>)
  \o (IF state.numIndices32Bits > 0
      THEN << << "bindTriangleIndicesTextures", program.id,
                 Field(locs, "_uTexturePerPolygonIdPortionIds"),
                 Field(locs, "_uTexturePerPolygonIdIndices"), 32 >>,
              << "drawArrays", "TRIANGLES", 0, state.numIndices32Bits >> >>
      ELSE << >>)

\* drawLayer: one texture bind and one drawArrays per non-empty index bucket
drawBuckets(program, locs, state) ==
     (IF state.numIndices8Bits > 0
      THEN << << "bindTriangleIndicesTextures", program.id,
                 Field(locs, "_uTexturePerPolygonIdPortionIds"),
                 Field(locs, "_uTexturePerPolygonIdIndices"), 8 >>,
              << "drawArrays", "TRIANGLES", 0, state.numIndices8Bits >> >>
      ELSE << >>)
  \o (IF state.numIndices16Bits > 0
      THEN << << "bindTriangleIndicesTextures", program.id,
                 Field(locs, "_uTexturePerPolygonIdPortionIds"),
                 Field(locs, "_uTexturePerPolygonIdIndices"), 16 >>,
              << "drawArrays", "TRIANGLES", 0, state.numIndices16Bits >> >>
      ELSE << >>)
  \o (IF state.numIndices32Bits > 0
      THEN << << "bindTriangleIndicesTextures", program.id,
                 Field(locs, "_uTexturePerPolygonIdPortionIds"),
                 Field(locs, "_uTexturePerPolygonIdIndices"), 32 >>,
              << "drawArrays", "TRIANGLES", 0, state.numIndices32Bits >> >>
      ELSE << >>)

\* the index-texture handle of a bucket is there
hasIndicesTexture(textureState, bits) ==
  CASE bits = 8  -> textureState.texturePerPolygonIdIndices8Bits
    [] bits = 16 -> textureState.texturePerPolygonIdIndices16Bits
    [] bits = 32 -> textureState.texturePerPolygonIdIndices32Bits

\* the positions among the bucket commands of the binds of an absent texture
unsatisfiedBinds(buckets, textureState) ==
  { i \in 1..Len(buckets) :
      /\ buckets[i][1] = "bindTriangleIndicesTextures"
      /\ ~hasIndicesTexture(textureState, buckets[i][5]) }

\* what textureState.bindTriangleIndicesTextures does with an absent handle
\* is its own business: it either returns without binding, or throws on the
\* missing texture object
TextureBindOutcomes(dataTextureLayer) ==
  IF dataTextureLayer._state.textureState = AllTextures
  THEN { "binds" }
  ELSE { "returns", "throws" }

\* drawLayer, lines 126-157: the bucket commands issued; no statement looks
\* at what bindTriangleIndicesTextures did, so the commands stop only where
\* the bind throws
bucketsIssued(buckets, textureState, unbound) ==
  LET unsatisfied == unsatisfiedBinds(buckets, textureState) IN
  IF unbound = "throws" /\ unsatisfied # { }
  THEN SubSeq(buckets, 1, CHOOSE i \in unsatisfied : \A j \in unsatisfied : i <= j)
  ELSE buckets

\* a rebasing that rotated the origin in place
objectsAfter_originRotatedInPlace(dataTextureLayer) ==
  [ dataTextureLayer |->
      [dataTextureLayer EXCEPT !._state.origin =
         transformPoint3(dataTextureLayer.model.rotationMatrix,
                         dataTextureLayer._state.origin)],
    camera |-> camera ]

\* drawLayer assigns to no field of the layer, of its state and model, or of
\* the camera (its results go to the module's temporaries tempVec3a-d and
\* tempMat4a): the objects as they are after the call
objectsAfter(dataTextureLayer) ==
  [ dataTextureLayer |-> dataTextureLayer, camera |-> camera ]

\* the common textures bound last, after the uniform uploads
callCommands_texturesLast(bindGl, common, rebase, uniforms, planes, buckets) ==
  bindGl \o rebase \o uniforms \o planes \o common \o buckets

\* drawLayer: the order in which the statements of the call issue their
\* commands (lines 48-51, 53-59, 81, 91-100, 102-124, 126-157)
callCommands(bindGl, common, rebase, uniforms, planes, buckets) ==
  bindGl \o common \o rebase \o uniforms \o planes \o buckets

\* no call is in progress: the commands of the last drawLayer call have been
\* handed over and the call has returned
Idle == lastCall.op # "drawLayer"

\* drawLayer(frameCtx, dataTextureLayer, renderPass); ok is whether the
\* shaders compile, should the call have to allocate the program, and
\* unbound what the texture state does about an absent index texture
drawLayer(dataTextureLayer, renderPass, ok, unbound) ==
  LET allocating == mustAllocate(_program)
      a == IF allocating
           THEN _allocate(scene, nextProgramId, ok, errors, locations)
           ELSE [_program |-> _program, errors |-> errors, locations |-> locations]
      early == returnsOnErrors(allocating, a.errors)
      program == a._program
      locs == a.locations
      bound == bindIfChanged(scene, program, locs, frameCtx.lastProgramId)
      rtc == rtcRebase(dataTextureLayer)
      common == bindCommonTextures(program, locs)
      uniforms == uploadUniforms(scene, locs, frameCtx, dataTextureLayer, renderPass, rtc)
      buckets == drawBuckets(program, locs, dataTextureLayer._state)
      issued == bucketsIssued(buckets, dataTextureLayer._state.textureState, unbound)
      throws == sectionPlanesThrow(scene, locs) \/ issued # buckets
      gl == IF early THEN << >>
            ELSE IF sectionPlanesThrow(scene, locs)
            THEN callCommands(bound.gl, common, rtc.calls, uniforms, << >>, << >>)
            ELSE callCommands(bound.gl, common, rtc.calls, uniforms,
                              uploadSectionPlanes(scene, locs, dataTextureLayer),
                              issued)
      outcome == IF early THEN "returned early"
                 ELSE IF throws THEN "threw" ELSE "completed"
      didBind == ~early /\ bound.gl # << >>
  IN /\ Idle
     /\ frameCtx.drawElements < MaxDraws
     /\ allocating => nextProgramId <= MaxPrograms
     /\ ~allocating => ok
     /\ _program' = a._program
     /\ errors' = a.errors
     /\ locations' = a.locations
     /\ nextProgramId' = IF allocating THEN nextProgramId + 1 ELSE nextProgramId
     /\ frameCtx' = IF early THEN frameCtx
                    ELSE [frameCtx EXCEPT
                            !.lastProgramId = bound.lastProgramId,
                            !.drawElements = IF throws THEN @ ELSE @ + 1]
     /\ lastCall' = [ op |-> "drawLayer",
                      dataTextureLayer |-> dataTextureLayer,
                      renderPass |-> renderPass,
                      afterContextRestored |-> lastCall.op = "webglContextRestored",
                      afterDestroy |-> lastCall.op = "destroy",
                      programBefore |-> _program,
                      errorsBefore |-> errors,
                      frameCtxBefore |-> frameCtx,
                      compiles |-> IF allocating THEN 1 ELSE 0,
                      outcome |-> outcome,
                      after |-> objectsAfter(dataTextureLayer),
                      unbound |-> unbound,
                      gl |-> gl ]
     /\ run' = [ reached |-> run.reached \/ ~early,
                 binds   |-> run.binds + (IF didBind THEN 1 ELSE 0) ]
     /\ programs' = IF allocating THEN created(programs, nextProgramId) ELSE programs
     /\ UNCHANGED << scene, _hash, built >>
     /\ UNCHANGED << shaded, pluginVars >>

DrawLayer ==
  \E dataTextureLayer \in Layers, renderPass \in RenderPasses, ok \in BOOLEAN :
    \E unbound \in TextureBindOutcomes(dataTextureLayer) :
      drawLayer(dataTextureLayer, renderPass, ok, unbound)

\* drawLayer for a layer that lacks an index texture
DrawLayerWithAbsentTextures ==
  \E dataTextureLayer \in LayersWithAbsentTextures, renderPass \in RenderPasses :
    \E unbound \in TextureBindOutcomes(dataTextureLayer) :
      drawLayer(dataTextureLayer, renderPass, TRUE, unbound)

\* lastCall after an operation that returns nothing to look at
NoCall == [op |-> "none"]
NewRun == [reached |-> FALSE, binds |-> 0]

\* drawLayer returns to the render pipeline, which takes over the commands
\* the call issued
drawLayerReturns ==
  /\ ~Idle
  /\ lastCall' = NoCall
  /\ UNCHANGED << scene, _program, errors, _hash, locations, frameCtx,
                  nextProgramId, run, built, programs >>
  /\ UNCHANGED << shaded, pluginVars >>

\* the WebGL context is lost: the GL programs created in it are gone, the
\* renderer is not told and keeps its fields
webglContextLost ==
  /\ Idle
  /\ programs' = contextLost(programs)
  /\ UNCHANGED << scene, _program, errors, _hash, locations, frameCtx,
                  nextProgramId, lastCall, run, built >>
  /\ UNCHANGED << shaded, pluginVars >>

\* webglContextRestored()
webglContextRestored ==
  /\ Idle
  /\ _program' = null
  /\ lastCall' = [op |-> "webglContextRestored"]
  /\ run' = NewRun
  /\ UNCHANGED << scene, errors, _hash, locations, frameCtx, nextProgramId, built,
                  programs >>
  /\ UNCHANGED << shaded, pluginVars >>

\* a destroy() that never calls program.destroy()
destroysHeld_never(program) == << >>

\* "if (this._program) { this._program.destroy(); }": the ids of the
\* programs whose destroy() is called
destroysHeld(program) == IF program # null THEN << program.id >> ELSE << >>

\* destroy()
destroy ==
  /\ Idle
  /\ _program' = null
  /\ lastCall' = [ op |-> "destroy", destroyed |-> destroysHeld(_program) ]
  /\ run' = NewRun
  /\ programs' = IF _program # null THEN destroyed(programs, _program.id) ELSE programs
  /\ UNCHANGED << scene, errors, _hash, locations, frameCtx, nextProgramId, built >>
  /\ UNCHANGED << shaded, pluginVars >>

\* _allocate() forced by the render pipeline on a constructed renderer
ForceAllocate ==
  \E ok \in BOOLEAN :
    LET a == _allocate(scene, nextProgramId, ok, errors, locations) IN
    /\ Idle
    /\ nextProgramId <= MaxPrograms
    /\ _program' = a._program
    /\ errors' = a.errors
    /\ locations' = a.locations
    /\ nextProgramId' = nextProgramId + 1
    /\ lastCall' = NoCall
    /\ run' = NewRun
    /\ programs' = created(programs, nextProgramId)
    /\ UNCHANGED << scene, _hash, frameCtx, built >>
    /\ UNCHANGED << shaded, pluginVars >>

\* getValid() called by the render pipeline; the result is kept in lastCall
GetValid ==
  /\ Idle
  /\ lastCall' = [op |-> "getValid", result |-> getValid]
  /\ UNCHANGED << scene, _program, errors, _hash, locations, frameCtx,
                  nextProgramId, run, built, programs >>
  /\ UNCHANGED << shaded, pluginVars >>

(* --------------------------- the collaborators ------------------------- *)
\* the scene gains a section plane
AddSectionPlane ==
  LET planes == scene._sectionPlanesState.sectionPlanes IN
  /\ Idle
  /\ Len(planes) < MaxPlanes
  /\ scene' = [scene EXCEPT !._sectionPlanesState.sectionPlanes =
                 Append(planes, SectionPlaneAt(Len(planes) + 1))]
  /\ lastCall' = NoCall
  /\ UNCHANGED << _program, errors, _hash, locations, frameCtx, nextProgramId, run, built,
                  programs >>
  /\ UNCHANGED << shaded, pluginVars >>

\* the scene loses its last section plane
RemoveSectionPlane ==
  LET planes == scene._sectionPlanesState.sectionPlanes IN
  /\ Idle
  /\ Len(planes) > 0
  /\ scene' = [scene EXCEPT !._sectionPlanesState.sectionPlanes =
                 SubSeq(planes, 1, Len(planes) - 1)]
  /\ lastCall' = NoCall
  /\ UNCHANGED << _program, errors, _hash, locations, frameCtx, nextProgramId, run, built,
                  programs >>
  /\ UNCHANGED << shaded, pluginVars >>

\* another renderer draws with its own program in the same frame
OtherRendererDraws ==
  /\ Idle
  /\ frameCtx.lastProgramId # OtherProgramId
  /\ frameCtx' = [frameCtx EXCEPT !.lastProgramId = OtherProgramId]
  /\ lastCall' = NoCall
  /\ run' = NewRun
  /\ UNCHANGED << scene, _program, errors, _hash, locations, nextProgramId, built,
                  programs >>
  /\ UNCHANGED << shaded, pluginVars >>

\* the frame context is reset for the next frame
NewFrame ==
  /\ Idle
  /\ frameCtx' = [frameCtx EXCEPT !.lastProgramId = NoProgramId, !.drawElements = 0]
  /\ lastCall' = NoCall
  /\ run' = NewRun
  /\ UNCHANGED << scene, _program, errors, _hash, locations, nextProgramId, built,
                  programs >>
  /\ UNCHANGED << shaded, pluginVars >>

(* ----------------------------- FastNavPlugin --------------------------- *)
\* "let timeoutDuration = 600" (milliseconds)
timeoutDuration == 600
\* "this._fadeMillisecs = 500" and "const interval = 50"
fadeMillisecs == 500
interval == 50

\* the deltaTime values of the scene's tick events
TickDeltas == { 100, 200, 300, 700 }

\* an opacity of the fade: tenths / 10, plus the rounding excess that the
\* repeated "opacity -= inc" in double arithmetic leaves above the decimal
\* value (1 - 3 * 0.1 is 0.7000000000000001, 1 - 10 * 0.1 is 1.39e-16)
Opacity(tenths, excess) == [tenths |-> tenths, excess |-> excess]
OpacityOne == Opacity(10, 0)
OpacityZero == Opacity(0, 0)
\* "opacity -= inc" with inc = 1 / (fadeMillisecs / interval)
decremented(opacity) ==
  LET tenths == opacity.tenths - ((10 * interval) \div fadeMillisecs)
  IN Opacity(tenths, IF tenths <= 7 THEN 1 ELSE opacity.excess)
\* "opacity > 0"
positive(opacity) ==
  opacity.tenths > 0 \/ (opacity.tenths = 0 /\ opacity.excess > 0)

\* the plugin after "new FastNavPlugin(viewer)": timer and fastMode are the
\* closure variables of the two event handlers, timers the intervals set
\* with setInterval and not cleared, each with the opacity of its closure
FastNavPlugin ==
  [ timer      |-> timeoutDuration,
    fastMode   |-> FALSE,
    _img       |-> null,
    _pInterval |-> null,
    timers     |-> { },
    subscribed |-> TRUE ]

\* the viewer's scene as far as the plugin writes it
Viewer(pbrEnabled, saoEnabled, edges) ==
  [ scene |-> [ pbrEnabled   |-> pbrEnabled,
                sao          |-> [enabled |-> saoEnabled],
                edgeMaterial |-> [edges |-> edges] ] ]
Viewers == { Viewer(b, b, TRUE) : b \in BOOLEAN }

\* what is known of the last plugin operation: op, whether fast mode was on
\* when it began, the sum of the deltaTime of the ticks handled in fast mode
\* since the last camera event, the fades started since fast mode was last
\* entered, and whether the operation threw
PluginCall(op, wasFast, elapsed, fades, threw) ==
  [ op |-> op, wasFast |-> wasFast, elapsed |-> elapsed, fades |-> fades,
    threw |-> threw ]
NoPluginCall == PluginCall("none", FALSE, 0, 0, FALSE)

\* clearInterval(id)
clearInterval(timers, id) == { t \in timers : t.id # id }

\* setInterval(...): the id of the new interval
newIntervalId(timers) ==
  CHOOSE id \in 1..(Cardinality(timers) + 1) : \A t \in timers : t.id # id

\* _initFade(): the image element, hidden, appended to the body
_initFade ==
  [ style |-> [visibility |-> "hidden", opacity |-> OpacityZero],
    parentNode |-> "body" ]

\* _startFade()
_startFade(p) ==
  LET img == IF p._img = null THEN _initFade ELSE p._img
      cleared == IF p._pInterval # null
                 THEN clearInterval(p.timers, p._pInterval.id)
                 ELSE p.timers
      id == newIntervalId(cleared)
  IN [ p EXCEPT
         !._img = [img EXCEPT !.style = [visibility |-> "visible",
                                         opacity |-> OpacityOne]],
         !._pInterval = [id |-> id],
         !.timers = cleared \cup { [id |-> id, opacity |-> OpacityOne] } ]

\* a _cancelFade() that hides the image and leaves the interval running
_cancelFade_keepsInterval(p) ==
  IF p._img = null
  THEN p
  ELSE [ p EXCEPT
           !._img = [p._img EXCEPT !.style = [visibility |-> "hidden",
                                              opacity |-> OpacityZero]] ]

\* _cancelFade()
_cancelFade(p) ==
  IF p._img = null
  THEN p
  ELSE [ p EXCEPT
           !.timers = IF p._pInterval # null
                      THEN clearInterval(p.timers, p._pInterval.id)
                      ELSE p.timers,
           !._pInterval = null,
           !._img = [p._img EXCEPT !.style = [visibility |-> "hidden",
                                              opacity |-> OpacityZero]] ]

\* "if (timer <= 0)" of the tick handler, taken on an exact zero too
expired_belowZero(timer) == timer < 0

\* "if (timer <= 0)" of the tick handler
expired(timer) == timer <= 0

\* the handler of the camera's "matrix" event
CameraMatrix ==
  /\ plugin.subscribed
  /\ plugin' = IF plugin.fastMode
               THEN [plugin EXCEPT !.timer = timeoutDuration]
               ELSE [_cancelFade(plugin) EXCEPT !.timer = timeoutDuration,
                                                !.fastMode = TRUE]
  /\ viewer' = IF plugin.fastMode THEN viewer ELSE Viewer(FALSE, FALSE, FALSE)
  /\ pluginCall' = PluginCall("matrix", plugin.fastMode, 0,
                              IF plugin.fastMode THEN pluginCall.fades ELSE 0,
                              FALSE)
  /\ UNCHANGED << rendererVars, shaderVars >>

\* the handler of the scene's "tick" event
SceneTick ==
  \E deltaTime \in TickDeltas :
    LET timer == plugin.timer - deltaTime
        ends == plugin.fastMode /\ expired(timer)
    IN /\ plugin.subscribed
       /\ plugin' = IF ~plugin.fastMode THEN plugin
                    ELSE IF ends
                    THEN [_startFade(plugin) EXCEPT !.timer = timer,
                                                    !.fastMode = FALSE]
                    ELSE [plugin EXCEPT !.timer = timer]
       /\ viewer' = IF ends THEN Viewer(TRUE, TRUE, TRUE) ELSE viewer
       /\ pluginCall' =
            PluginCall("tick", plugin.fastMode,
                       IF plugin.fastMode THEN pluginCall.elapsed + deltaTime
                       ELSE pluginCall.elapsed,
                       IF ends THEN pluginCall.fades + 1 ELSE pluginCall.fades,
                       FALSE)
       /\ UNCHANGED << rendererVars, shaderVars >>

\* a firing of the callback of an interval set by _startFade()
FadeInterval ==
  \E t \in plugin.timers :
    LET opacity == decremented(t.opacity) IN
    /\ plugin' =
         IF positive(opacity)
         THEN [ plugin EXCEPT
                  !._img = [@ EXCEPT !.style.opacity = opacity],
                  !.timers = (@ \ { t }) \cup { [t EXCEPT !.opacity = opacity] } ]
         ELSE [ plugin EXCEPT
                  !._img = [@ EXCEPT !.style = [visibility |-> "hidden",
                                                opacity |-> OpacityZero]],
                  !.timers = clearInterval(@, plugin._pInterval.id),
                  !._pInterval = null ]
    /\ pluginCall' = [pluginCall EXCEPT !.op = "interval", !.wasFast = plugin.fastMode,
                                        !.threw = FALSE]
    /\ UNCHANGED << viewer, rendererVars, shaderVars >>

\* send("clear")
SendClear ==
  /\ plugin' = _cancelFade(plugin)
  /\ pluginCall' = [pluginCall EXCEPT !.op = "send", !.wasFast = plugin.fastMode,
                                      !.threw = FALSE]
  /\ UNCHANGED << viewer, rendererVars, shaderVars >>

\* destroy() of the plugin: "this._img.parentNode" throws a TypeError when
\* there is no fade image, none having been created or a destroy() having
\* removed it, after the subscriptions are removed
PluginDestroy ==
  LET p == _cancelFade(plugin) IN
  /\ plugin' = [p EXCEPT !.subscribed = FALSE, !._img = null]
  /\ pluginCall' = [pluginCall EXCEPT !.op = "destroy", !.wasFast = plugin.fastMode,
                                      !.threw = (p._img = null)]
  /\ UNCHANGED << viewer, rendererVars, shaderVars >>

(* ------------------------- the vertex stage ----------------------------- *)
\* the objects of a synthetic layer and the triangles of each: the packed
\* portion ids hold one entry per 8 triangles
NumObjects == 2
ObjectIndices == 0..(NumObjects - 1)
TrianglesPerObject == 8
VertexIDs == 0..((3 * TrianglesPerObject * NumObjects) - 1)
\* the values of the packed pass flag and of renderPass
PassFlags == 0..2
\* the values of the packed colour alpha
Alphas == { 0, 255 }

\* a 2D data texture: texels by row-major index
DataTexture(width, texels) == [width |-> width, texels |-> texels]
\* texelFetch(texture, ivec2(x, y), 0)
texelFetch(texture, x, y) == texture.texels[(y * texture.width) + x]

Vec4(x, y, z, w) == [x |-> x, y |-> y, z |-> z, w |-> w]
Texel(r, g, b, a) == [r |-> r, g |-> g, b |-> b, a |-> a]

\* the per-object data of one object of the synthetic layer: the packed pass
\* flag, the colour alpha, the solid flag and the outcome of the two
\* back-face tests on the object's triangles
ObjectData(pass, alpha, solid, awayFromEye, viewNormalZNegative) ==
  [ pass |-> pass, alpha |-> alpha, solid |-> solid,
    awayFromEye |-> awayFromEye, viewNormalZNegative |-> viewNormalZNegative ]
ObjectDatas ==
  { ObjectData(p, a, s, e, z) :
      p \in PassFlags, a \in Alphas, s \in { 0, 1 }, e \in BOOLEAN, z \in BOOLEAN }

\* uTexturePerPolygonIdPortionIds of the layer: triangle p belongs to the
\* object p \div TrianglesPerObject
PortionIds ==
  DataTexture(4096, [i \in 0..(NumObjects - 1) |-> Texel(i, 0, 0, 0)])

\* uObjectPerObjectColorsAndFlags of the layer: 8 texels per object (colour,
\* pick colour, flags, flags2, vertex base, index base offset, edge index
\* base offset, solid)
ColorsAndFlags(objects) ==
  DataTexture(512 * 8,
    [ i \in 0..((8 * NumObjects) - 1) |->
        LET o == objects[i \div 8]
            base == (i \div 8) * TrianglesPerObject
        IN CASE i % 8 = 0 -> Texel(255, 255, 255, o.alpha)
             [] i % 8 = 2 -> Texel(o.pass, o.pass, o.pass, 0)
             [] i % 8 = 3 -> Texel(1, 0, 0, 0)
             [] i % 8 = 4 -> Texel(0, 0, 0, 3 * base)
             [] i % 8 = 5 -> Texel(0, 0, 0, base)
             [] i % 8 = 7 -> Texel(o.solid, 0, 0, 0)
             [] OTHER -> Texel(0, 0, 0, 0) ])

\* "gl_Position = vec4(3.0, 3.0, 3.0, 1.0);"
CullPosition == Vec4(3, 3, 3, 1)

\* "gl_Position = clipPos;": projMatrix * viewMatrix * sceneModelMatrix *
\* objectDecodeAndInstanceMatrix applied to corner `corner` of the triangle
\* `triangle` of the object's own triangles
clipPos(objectIndex, triangle, corner) ==
  [ clipPos |-> [object |-> objectIndex, triangle |-> triangle, corner |-> corner] ]

\* a vertex stage whose pass filter never culls
passFilterCulls_never(flagsX, renderPass) == FALSE

\* "if (int(flags.x) != renderPass) {"
passFilterCulls(flagsX, renderPass) == flagsX # renderPass

\* "if (color.a == 0u) {"
alphaCulls(colorA) == colorA = 0

\* whether the built source holds the line
Emits(src, line) == \E i \in 1..Len(src) : src[i] = line

\* a winding flip that leaves the solid flag out
flipsWinding_solidToo(src, solid, perspective, object) ==
  IF perspective THEN object.awayFromEye ELSE object.viewNormalZNegative

\* "if (solid != 1u) {" with, inside it, the test
\* "dot(position.xyz - uCameraEyeRtcInQuantizedSpace, normal) < 0.0" if
\* isPerspectiveMatrix(projMatrix) and "viewNormal.z < 0.0" otherwise
flipsWinding(src, solid, perspective, object) ==
  /\ Emits(src, "if (solid != 1u) {")
  /\ solid # 1
  /\ IF perspective THEN object.awayFromEye ELSE object.viewNormalZNegative

\* "int polygonIndex = gl_VertexID / 3;"
polygonIndexOf(gl_VertexID) == gl_VertexID \div 3

\* the column of the portion-id texel without the "& 4095"
h_packed_object_id_index_unwrapped(polygonIndex) == polygonIndex \div 8

\* "int h_packed_object_id_index = (polygonIndex >> 3) & 4095;"
h_packed_object_id_index(polygonIndex) == (polygonIndex \div 8) % 4096

\* "int v_packed_object_id_index = (polygonIndex >> 3) >> 12;"
v_packed_object_id_index(polygonIndex) == (polygonIndex \div 8) \div 4096

\* the address of the portion-id texel fetched for a vertex
objectLookup(gl_VertexID) ==
  [ polygonIndex |-> polygonIndexOf(gl_VertexID),
    column |-> h_packed_object_id_index(polygonIndexOf(gl_VertexID)),
    row |-> v_packed_object_id_index(polygonIndexOf(gl_VertexID)) ]

\* vertex ids whose lookup address is computed: those of the synthetic layer
\* and some around the first row ends of a larger one
LookupVertexIDs ==
  VertexIDs \cup { 3 * 4095, 3 * 4096, (3 * 4096) + 1,
                   (3 * 32767) + 2, 3 * 32768, (3 * 32768) + 1, (3 * 32768) + 2,
                   3 * 32776, 3 * 65536 }

\* main() of the built vertex source for one vertex: the gl_Position written
\* and what became of viewNormal
vertexMain(src, objects, renderPass, perspective, gl_VertexID) ==
  LET uObjectPerObjectColorsAndFlags == ColorsAndFlags(objects)
      polygonIndex == objectLookup(gl_VertexID).polygonIndex
      objectIndex == texelFetch(PortionIds, objectLookup(gl_VertexID).column,
                                objectLookup(gl_VertexID).row).r
      objectIndexCoords == [x |-> objectIndex % 512, y |-> objectIndex \div 512]
      flags == texelFetch(uObjectPerObjectColorsAndFlags,
                          (objectIndexCoords.x * 8) + 2, objectIndexCoords.y)
      packedIndexBaseOffset ==
        texelFetch(uObjectPerObjectColorsAndFlags,
                   (objectIndexCoords.x * 8) + 5, objectIndexCoords.y)
      indexBaseOffset ==
        (packedIndexBaseOffset.r * 16777216) + (packedIndexBaseOffset.g * 65536)
          + (packedIndexBaseOffset.b * 256) + packedIndexBaseOffset.a
      h_index == (polygonIndex - indexBaseOffset) % 4096
      v_index == (polygonIndex - indexBaseOffset) \div 4096
      solid == texelFetch(uObjectPerObjectColorsAndFlags,
                          (objectIndexCoords.x * 8) + 7, objectIndexCoords.y).r
      color == texelFetch(uObjectPerObjectColorsAndFlags,
                          (objectIndexCoords.x * 8) + 0, objectIndexCoords.y)
      flip == flipsWinding(src, solid, perspective, objects[objectIndex])
      corner == IF flip THEN 2 - (gl_VertexID % 3) ELSE gl_VertexID % 3
  IN IF Emits(src, "if (int(flags.x) != renderPass) {")
        /\ passFilterCulls(flags.r, renderPass)
     THEN [ gl_Position |-> CullPosition, viewNormal |-> "not computed",
            objectIndex |-> objectIndex ]
     ELSE IF Emits(src, "if (color.a == 0u) {") /\ alphaCulls(color.a)
     THEN [ gl_Position |-> CullPosition, viewNormal |-> "not computed",
            objectIndex |-> objectIndex ]
     ELSE [ gl_Position |-> clipPos(objectIndex, (v_index * 4096) + h_index, corner),
            viewNormal |-> IF flip THEN "negated" ELSE "unchanged",
            objectIndex |-> objectIndex ]

\* nothing run through the vertex stage yet
NothingShaded == [run |-> FALSE]

\* a draw of the synthetic layer with the compiled program: every vertex of
\* the layer goes through the vertex stage
RunVertexStage ==
  \E objects \in [ObjectIndices -> ObjectDatas], renderPass \in PassFlags,
     perspective \in BOOLEAN :
    LET src == shaderSource(_program).vertex
        out == [ id \in VertexIDs |->
                   vertexMain(src, objects, renderPass, perspective, id) ]
    IN
    /\ shaded = NothingShaded
    /\ _program # null
    /\ shaded' =
         [ run |-> TRUE, objects |-> objects, renderPass |-> renderPass,
           perspective |-> perspective,
           vertex |-> out,
           lookup |-> [ id \in LookupVertexIDs |-> objectLookup(id) ] ]
    /\ UNCHANGED << built, rendererVars, pluginVars >>

(* ---------------------------- specification ---------------------------- *)
NothingBuilt == [built |-> FALSE]

\* new TrianglesDataTextureDepthRenderer(scene): the state after construction
constructor(sc, ok) ==
  LET a == _allocate(sc, 1, ok, null, undefined) IN
  /\ scene = sc
  /\ _program = a._program
  /\ errors = a.errors
  /\ locations = a.locations
  /\ _hash = _getHash(sc)
  /\ nextProgramId = 2
  /\ frameCtx = [lastProgramId |-> NoProgramId, drawElements |-> 0, pickZFar |-> 500]
  /\ lastCall = [op |-> "constructor", compiles |-> 1]
  /\ run = NewRun
  /\ programs = created({ }, 1)

\* the scenes a renderer is constructed for: entityOffsetsEnabled only selects
\* one line of the vertex shader text, so it is switched together with
\* logarithmicDepthBufferEnabled here; SpecBuild covers all combinations
ConstructedScenes ==
  { Scene(SectionPlanesOfLength(n), l, l) : n \in 0..MaxPlanes, l \in BOOLEAN }

\* the shader results and the plugin while the renderer is looked at
Untouched ==
  /\ built = NothingBuilt
  /\ shaded = NothingShaded
  /\ plugin = FastNavPlugin
  /\ viewer = Viewer(TRUE, TRUE, TRUE)
  /\ pluginCall = NoPluginCall

Init ==
  /\ \E sc \in ConstructedScenes, ok \in BOOLEAN : constructor(sc, ok)
  /\ Untouched

Next ==
  \/ DrawLayer
  \/ drawLayerReturns
  \/ webglContextLost
  \/ webglContextRestored
  \/ destroy
  \/ ForceAllocate
  \/ GetValid
  \/ AddSectionPlane
  \/ RemoveSectionPlane
  \/ OtherRendererDraws
  \/ NewFrame

Spec == Init /\ [][Next]_vars

\* the renderer drawing layers with absent index textures
NextTextures ==
  \/ DrawLayerWithAbsentTextures
  \/ drawLayerReturns
  \/ NewFrame
  \/ AddSectionPlane

SpecTextures == Init /\ [][NextTextures]_vars

\* the vertex stage of the compiled program as a pure function of the layer
\* data, renderPass and the vertex id
InitVertex ==
  /\ constructor(Scene(SectionPlanesOfLength(1), TRUE, FALSE), TRUE)
  /\ Untouched

NextVertex == RunVertexStage

SpecVertex == InitVertex /\ [][NextVertex]_vars

\* the FastNavPlugin on a viewer, from its construction on
InitFastNav ==
  /\ constructor(Scene(<< >>, FALSE, FALSE), TRUE)
  /\ built = NothingBuilt
  /\ shaded = NothingShaded
  /\ plugin = FastNavPlugin
  /\ viewer \in Viewers
  /\ pluginCall = NoPluginCall

NextFastNav ==
  \/ CameraMatrix
  \/ SceneTick
  \/ FadeInterval
  \/ SendClear
  \/ PluginDestroy

SpecFastNav == InitFastNav /\ [][NextFastNav]_vars

\* the shader builders as pure functions of two scene configurations
Build ==
  \E a \in Scenes, b \in Scenes, supported \in BOOLEAN :
    /\ built = NothingBuilt
    /\ built' = [ built |-> TRUE, a |-> a, b |-> b,
                  logarithmicDepthBufferSupported |-> supported,
                  hashA |-> _getHash(a), hashB |-> _getHash(b),
                  sourceA |-> _buildShader(a), sourceB |-> _buildShader(b),
                  occlusionA |-> buildFragment(a, supported),
                  _uSectionPlanesA |->
                    _allocate(a, 1, TRUE, null, undefined).locations._uSectionPlanes ]
    /\ UNCHANGED << scene, _program, errors, _hash, locations, frameCtx,
                    nextProgramId, lastCall, run, programs >>
    /\ UNCHANGED << shaded, pluginVars >>

InitBuild ==
  /\ constructor(Scene(<< >>, FALSE, FALSE), TRUE)
  /\ Untouched

NextBuild == Build

SpecBuild == InitBuild /\ [][NextBuild]_vars

(* ------------------------- reading the last call ------------------------ *)
IsDrawLayer == lastCall.op = "drawLayer"
\* the call got past the compile-error return
Reached == IsDrawLayer /\ lastCall.outcome # "returned early"
\* the call ran to its end
Completed == IsDrawLayer /\ lastCall.outcome = "completed"

\* the positions in the command list of the commands called name
CommandIndices(gl, name) == { i \in 1..Len(gl) : gl[i][1] = name }
\* the commands called name, in the order issued
Commands(gl, name) == SelectSeq(gl, LAMBDA c : c[1] = name)

(* -------------------------------- C1 ----------------------------------- *)
\* C1: a failed compilation leaves a non-empty error list in renderer.errors,
\* and every drawLayer call made once errors is set is a no-op: no command is
\* issued and frameCtx.lastProgramId and frameCtx.drawElements keep their
\* values.
C1_DrawLayerIsNoOpAfterFailure ==
  /\ (_program # null /\ _program.errors # null) =>
        (errors # null /\ Len(errors.messages) > 0)
  /\ (IsDrawLayer /\ lastCall.errorsBefore # null) =>
        (lastCall.gl = << >> /\ frameCtx = lastCall.frameCtxBefore)

(* -------------------------------- C2 ----------------------------------- *)
\* C2: whenever the renderer holds a compiled program, the hash of the
\* configuration its shader text was generated from is the stored _hash, so
\* that getValid() is true exactly when the program was generated from a
\* configuration with the live hash.  (Stated for renderers none of whose
\* compilations has failed.)
C2_ProgramBuiltUnderStoredHash ==
  (_program # null /\ _program.errors = null /\ errors = null) =>
     /\ _getHash(_program.builtFrom) = _hash
     /\ getValid <=> (_getHash(_program.builtFrom) = _getHash(scene))

(* -------------------------------- C3 ----------------------------------- *)
\* C3: two scene configurations with equal _getHash() give identical vertex
\* and fragment source lines. Violated: _getHash() covers the section-plane
\* state only, and two configurations that differ in
\* logarithmicDepthBufferEnabled or entityOffsetsEnabled have equal hashes
\* and different source.
C3_EqualHashEqualSource ==
  (built.built /\ built.hashA = built.hashB) => built.sourceA = built.sourceB

\* what the builders do guarantee: with equal _getHash() and the same
\* logarithmicDepthBufferEnabled and entityOffsetsEnabled flags the vertex
\* and fragment source lines are identical, whatever the section planes hold
C3_EqualHashAndFlagsEqualSource ==
  ( /\ built.built
    /\ built.hashA = built.hashB
    /\ built.a.logarithmicDepthBufferEnabled = built.b.logarithmicDepthBufferEnabled
    /\ built.a.entityOffsetsEnabled = built.b.entityOffsetsEnabled )
  => ( /\ built.sourceA.vertex = built.sourceB.vertex
       /\ built.sourceA.fragment = built.sourceB.fragment )

\* two different plane lists of the same length, same flags, sources built
C3_Witness ==
  /\ built.built
  /\ built.hashA = built.hashB
  /\ built.a.logarithmicDepthBufferEnabled = built.b.logarithmicDepthBufferEnabled
  /\ built.a.entityOffsetsEnabled = built.b.entityOffsetsEnabled
  /\ Len(built.a._sectionPlanesState.sectionPlanes) = 2
  /\ built.a._sectionPlanesState.sectionPlanes # built.b._sectionPlanesState.sectionPlanes
  /\ built.sourceA.fragment = built.sourceB.fragment

(* ----------------------- reading the command list ----------------------- *)
\* the index buckets of a layer state with a count above zero, as <<bit
\* width, count>> in the order 8, 16, 32
NonEmptyBuckets(state) ==
  SelectSeq(<< << 8,  state.numIndices8Bits >>,
               << 16, state.numIndices16Bits >>,
               << 32, state.numIndices32Bits >> >>,
            LAMBDA b : b[2] > 0)

UniformOps == { "uniform1i", "uniform1f", "uniform3fv", "uniformMatrix4fv" }

\* the uniform uploads among the commands whose location the program knows
\* under one of names, in the order issued
Uploads(gl, names) ==
  SelectSeq(gl, LAMBDA c : /\ c[1] \in UniformOps
                           /\ c[2] # undefined
                           /\ c[2].name \in names)

PlaneActiveName(i) == "sectionPlaneActive" \o ToString(i)
PlanePosName(i) == "sectionPlanePos" \o ToString(i)
PlaneDirName(i) == "sectionPlaneDir" \o ToString(i)
PlaneNames ==
  UNION { { PlaneActiveName(i), PlanePosName(i), PlaneDirName(i) } :
          i \in 0..(MaxPlanes + 1) }

\* the layer and the live planes of the last drawLayer call
CallLayer == lastCall.dataTextureLayer
LivePlanes == scene._sectionPlanesState.sectionPlanes
\* renderFlags.sectionPlanesActivePerLayer[layerIndex * N + i]
PlaneFlag(i) ==
  LET flags == CallLayer.model.renderFlags.sectionPlanesActivePerLayer
      k == (CallLayer.layerIndex * Len(LivePlanes)) + i
  IN IF k \in DOMAIN flags THEN flags[k] ELSE FALSE

\* <<op, uniform name>> of the section-plane uploads due for planes 0..M-1
RECURSIVE ExpectedPlaneUploads(_, _)
ExpectedPlaneUploads(i, M) ==
  IF i >= M THEN << >>
  ELSE << << "uniform1i", PlaneActiveName(i) >> >>
       \o (IF PlaneFlag(i)
           THEN << << "uniform3fv", PlanePosName(i) >>,
                   << "uniform3fv", PlaneDirName(i) >> >>
           ELSE << >>)
       \o ExpectedPlaneUploads(i + 1, M)

\* the section-plane uploads of the last call are those due for planes
\* 0..M-1, in ascending plane order, the active uniform carrying the flag
\* and the direction uniform the plane's direction
PlaneUploadsAre(M) ==
  LET ups == Uploads(lastCall.gl, PlaneNames)
  IN /\ [j \in 1..Len(ups) |-> << ups[j][1], ups[j][2].name >>]
          = ExpectedPlaneUploads(0, M)
     /\ \A i \in 0..(M - 1) :
          /\ \A j \in 1..Len(ups) :
               ups[j][2].name = PlaneActiveName(i)
                 => ups[j][3] = (IF PlaneFlag(i) THEN 1 ELSE 0)
          /\ \A j \in 1..Len(ups) :
               ups[j][2].name = PlaneDirName(i)
                 => ups[j][3] = LivePlanes[i + 1].dir

\* the planes the location table of the program has an entry for
TabledPlanes ==
  IF locations = undefined THEN 0
  ELSE IF Len(locations._uSectionPlanes) < Len(LivePlanes)
       THEN Len(locations._uSectionPlanes) ELSE Len(LivePlanes)

(* -------------------------------- C4 ----------------------------------- *)
\* C4: drawLayer never recompiles because of a hash mismatch: a call made
\* while the renderer holds a program does not invoke _allocate() whatever
\* the live hash is, keeps the program and renderer.errors as they were and,
\* the program being a compiled one, issues its draws with that program;
\* a compilation inside drawLayer happens only when _program was null.
C4_NoRecompileWhileProgramHeld ==
  IsDrawLayer =>
    /\ (lastCall.programBefore # null) =>
         /\ lastCall.compiles = 0
         /\ _program = lastCall.programBefore
         /\ errors = lastCall.errorsBefore
         /\ (lastCall.programBefore.errors = null) =>
              /\ Completed
              /\ Len(Commands(lastCall.gl, "drawArrays"))
                   = Len(NonEmptyBuckets(CallLayer._state))
              /\ \A i \in CommandIndices(lastCall.gl, "bindTriangleIndicesTextures") :
                   lastCall.gl[i][2] = lastCall.programBefore.id
    /\ (lastCall.compiles = 1) => lastCall.programBefore = null

\* a draw issued with a compiled program generated under another hash than
\* the live one
C4_Witness ==
  /\ IsDrawLayer
  /\ lastCall.programBefore # null
  /\ lastCall.programBefore.errors = null
  /\ ~getValid
  /\ _getHash(lastCall.programBefore.builtFrom) # _getHash(scene)
  /\ lastCall.compiles = 0
  /\ Len(Commands(lastCall.gl, "drawArrays")) > 0

(* -------------------------------- C5 ----------------------------------- *)
\* C5: with a compiled program, a drawLayer call issues exactly one
\* drawArrays per index bucket with a count above zero and none for an empty
\* bucket, each with first = 0 and the bucket's count, in the order 8-bit,
\* 16-bit, 32-bit, and each immediately preceded by a
\* bindTriangleIndicesTextures call with the bucket's bit width.
C5_OneDrawPerNonEmptyBucket ==
  (IsDrawLayer /\ _program # null /\ _program.errors = null /\ Reached) =>
    LET gl == lastCall.gl
        buckets == NonEmptyBuckets(CallLayer._state)
        draws == Commands(gl, "drawArrays")
        binds == Commands(gl, "bindTriangleIndicesTextures")
    IN /\ Completed
       /\ draws = [j \in 1..Len(buckets) |->
                     << "drawArrays", "TRIANGLES", 0, buckets[j][2] >>]
       /\ Len(binds) = Len(buckets)
       /\ \A j \in 1..Len(binds) : binds[j][5] = buckets[j][1]
       /\ \A i \in CommandIndices(gl, "drawArrays") :
            i > 1 /\ gl[i - 1][1] = "bindTriangleIndicesTextures"

\* the 8-bit and 32-bit buckets drawn, the empty 16-bit bucket skipped
C5_Witness ==
  /\ Completed
  /\ _program.errors = null
  /\ CallLayer._state.numIndices8Bits > 0
  /\ CallLayer._state.numIndices16Bits = 0
  /\ CallLayer._state.numIndices32Bits > CallLayer._state.numIndices8Bits
  /\ Len(Commands(lastCall.gl, "drawArrays")) = 2

(* -------------------------------- C6 ----------------------------------- *)
\* C6: a drawLayer call that gets past the compile-error return calls
\* program.bind() if and only if frameCtx.lastProgramId differed from the
\* renderer's program id, and leaves frameCtx.lastProgramId equal to that
\* id; a run of consecutive drawLayer calls on the renderer, with no other
\* renderer drawing and no context loss in between, has issued exactly one
\* program bind once a call of the run got that far.
C6_BindOnlyWhenProgramChanges ==
  /\ Reached =>
       /\ Len(Commands(lastCall.gl, "program.bind"))
            = (IF lastCall.frameCtxBefore.lastProgramId # _program.id THEN 1 ELSE 0)
       /\ frameCtx.lastProgramId = _program.id
  /\ run.binds = (IF run.reached THEN 1 ELSE 0)

\* the second call of a run: nothing bound by it, one bind in the run
C6_Witness ==
  /\ Completed
  /\ Commands(lastCall.gl, "program.bind") = << >>
  /\ Len(Commands(lastCall.gl, "drawArrays")) > 0
  /\ lastCall.frameCtxBefore.drawElements = 1
  /\ run.binds = 1

(* -------------------------------- C7 ----------------------------------- *)
\* what C7 says of the drawLayer call that follows webglContextRestored();
\* drawsWhen tells whether a call whose compilation succeeded goes on
C7_After(drawsWhen) ==
  /\ (lastCall.op = "webglContextRestored") => _program = null
  /\ (IsDrawLayer /\ lastCall.afterContextRestored) =>
       /\ lastCall.programBefore = null
       /\ lastCall.compiles = 1
       /\ \A i \in CommandIndices(lastCall.gl, "program.bind")
                   \cup CommandIndices(lastCall.gl, "bindTriangleIndicesTextures") :
            lastCall.gl[i][2] = _program.id
       /\ IF _program.errors = null /\ drawsWhen
          THEN /\ Completed
               /\ Len(Commands(lastCall.gl, "program.bind")) = 1
               /\ Len(Commands(lastCall.gl, "drawArrays"))
                    = Len(NonEmptyBuckets(CallLayer._state))
               /\ frameCtx.drawElements = lastCall.frameCtxBefore.drawElements + 1
          ELSE /\ lastCall.gl = << >>
               /\ frameCtx = lastCall.frameCtxBefore

\* C7 as claimed: after webglContextRestored() the program handle is null and
\* the next drawLayer call compiles exactly once before any bind, upload or
\* draw; if that compilation succeeds the call goes on to bind and draw, and
\* if it fails the call returns without binding or drawing.
C7_RestoredThenCompileAndDraw == C7_After(TRUE)

\* C7: after webglContextRestored() the program handle is null and the next
\* drawLayer call compiles exactly once before any bind, upload or draw; if
\* that compilation succeeds and renderer.errors was not set before the call,
\* the call goes on to bind and draw; if the compilation fails or
\* renderer.errors was set, the call returns without binding or drawing.
C7_RestoredThenCompileAndDrawUnlessErrors == C7_After(lastCall.errorsBefore = null)

\* a call after the restore that compiled, bound and drew
C7_Witness ==
  /\ Completed
  /\ lastCall.afterContextRestored
  /\ lastCall.compiles = 1
  /\ _program.errors = null
  /\ Len(Commands(lastCall.gl, "program.bind")) = 1
  /\ Len(Commands(lastCall.gl, "drawArrays")) > 0

(* -------------------------------- C8 ----------------------------------- *)
\* C8: each active section plane's position is uploaded rebased with the
\* origin the same drawLayer call built the RTC view matrix with (the
\* rotated layer origin plus the model position) when the call rebased, and
\* as the plane's world-space position otherwise.
C8_PlanePositionsUseViewOrigin ==
  (Completed /\ locations # undefined) =>
    LET gl == lastCall.gl
        rebase == Commands(gl, "createRTCViewMat")
    IN \A i \in 0..(TabledPlanes - 1) :
         LET ups == Uploads(gl, { PlanePosName(i) })
         IN PlaneFlag(i) =>
              /\ Len(ups) = 1
              /\ ups[1][3] = (IF rebase # << >>
                              THEN getPlaneRTCPos(LivePlanes[i + 1].dist,
                                                  LivePlanes[i + 1].dir,
                                                  rebase[1][3])
                              ELSE LivePlanes[i + 1].pos)

(* -------------------------------- C9 ----------------------------------- *)
\* C9 as claimed: in a drawLayer call with N live section planes, for each
\* plane index i in 0..N-1 in ascending order the active uniform of plane i
\* is uploaded with 1 or 0 from sectionPlanesActivePerLayer[layerIndex * N + i]
\* and the position and direction uniforms of plane i are uploaded if and
\* only if that flag is true; with N = 0 no section-plane uniform is uploaded.
C9_EveryLivePlaneUploaded ==
  Completed => PlaneUploadsAre(Len(LivePlanes))

\* C9: in a drawLayer call with N live section planes, for each plane index
\* i in 0..N-1 that the program's location table has an entry for, in
\* ascending order, the active uniform of plane i is uploaded with 1 or 0
\* from sectionPlanesActivePerLayer[layerIndex * N + i] and the position and
\* direction uniforms of plane i are uploaded if and only if that flag is
\* true; nothing is uploaded for a plane without an entry, nor with N = 0.
C9_EveryTabledPlaneUploaded ==
  Completed => PlaneUploadsAre(TabledPlanes)

\* layer 1 of a scene with two planes, the first active and the second not
C9_Witness ==
  /\ Completed
  /\ Len(LivePlanes) = 2
  /\ TabledPlanes = 2
  /\ CallLayer.layerIndex = 1
  /\ PlaneFlag(0) /\ ~PlaneFlag(1)
  /\ Len(Uploads(lastCall.gl, PlaneNames)) = 4

(* -------------------------------- C10 ---------------------------------- *)
\* C10: when the origin and the position of the layer are zero, the view
\* matrix and camera eye uniforms are the camera's viewMatrix and eye and
\* createRTCViewMat is not called; otherwise createRTCViewMat is called
\* exactly once in the drawLayer call, with rtcOrigin = rotate(rotationMatrix,
\* origin) + position (the rotated term zero for a zero origin), the view
\* matrix uniform is its result and the eye uniform is camera.eye - rtcOrigin.
C10_RtcRebasing ==
  Reached =>
    LET gl == lastCall.gl
        origin == CallLayer._state.origin
        position == CallLayer.model.position
        rtcOrigin == VecAdd(IF origin = Vec3Zero THEN Vec3Zero
                            ELSE transformPoint3(CallLayer.model.rotationMatrix, origin),
                            position)
        calls == Commands(gl, "createRTCViewMat")
        view == Uploads(gl, { "viewMatrix" })
        eye == Uploads(gl, { "uCameraEyeRtc" })
    IN /\ IF origin = Vec3Zero /\ position = Vec3Zero
          THEN calls = << >>
          ELSE calls = << << "createRTCViewMat", camera.viewMatrix, rtcOrigin >> >>
       /\ (locations # undefined) =>
            /\ Len(view) = 1 /\ Len(eye) = 1
            /\ IF origin = Vec3Zero /\ position = Vec3Zero
               THEN /\ view[1][3] = camera.viewMatrix
                    /\ eye[1][3] = camera.eye
               ELSE /\ view[1][3] = createRTCViewMat(camera.viewMatrix, rtcOrigin)
                    /\ eye[1][3] = VecSub(camera.eye, rtcOrigin)

\* a rotated layer with an origin and a position, drawn from two buckets
C10_Witness ==
  /\ Completed
  /\ locations # undefined
  /\ CallLayer._state.origin # Vec3Zero
  /\ CallLayer.model.position # Vec3Zero
  /\ CallLayer.model.rotationMatrix = RotZMat4
  /\ Len(Commands(lastCall.gl, "createRTCViewMat")) = 1
  /\ Len(Commands(lastCall.gl, "drawArrays")) = 2

(* -------------------------------- C11 ---------------------------------- *)
\* C11: the renderer owns at most one program at any time: whenever it
\* creates a Program in place of one it holds, the Program held has been
\* destroyed or was lost with its context before.
C11_AtMostOneProgramAllocated ==
  [][ (programs' \ programs # { } /\ _program # null)
        => _program.id \notin programs ]_vars

(* -------------------------------- C12 ---------------------------------- *)
\* C12: constructing the renderer compiles nothing: after construction no
\* Program has been created and _program is null, the first compilation
\* being left to the first drawLayer call.
C12_ConstructorCompilesNothing ==
  (lastCall.op = "constructor") =>
     (lastCall.compiles = 0 /\ programs = { } /\ _program = null)

(* -------------------------------- C19 ---------------------------------- *)
\* C19: once a compilation of the renderer has failed (renderer.errors is
\* set), no later drawLayer call compiles again, with or without a
\* webglContextRestored() in between.
C19_NoCompilationAfterFailure ==
  (IsDrawLayer /\ lastCall.errorsBefore # null) => lastCall.compiles = 0

(* -------------------------------- C20 ---------------------------------- *)
\* C20: a drawLayer call that does not return early on a compilation error
\* increments frameCtx.drawElements by exactly 1, whatever the number of
\* index buckets drawn; a call that returns early leaves the counter as it
\* was.
C20_DrawElementsCountsCalls ==
  IsDrawLayer =>
    frameCtx.drawElements =
      lastCall.frameCtxBefore.drawElements
        + (IF lastCall.outcome = "returned early" THEN 0 ELSE 1)

(* -------------------------------- C13 ---------------------------------- *)
TextureBindOps == { "bindCommonTextures", "bindTriangleIndicesTextures" }
\* the positions of the commands of the last call whose name is in ops
IndicesOf(ops) == { i \in 1..Len(lastCall.gl) : lastCall.gl[i][1] \in ops }

\* every bind, upload and rebasing of the call comes before its first draw,
\* and every draw directly follows the bind of its index textures
C13_AllBeforeTheDraw ==
  /\ \A d \in IndicesOf({ "drawArrays" }) :
       /\ \A x \in IndicesOf({ "program.bind", "bindCommonTextures", "createRTCViewMat" }
                             \cup UniformOps) : x < d
       /\ (d - 1) \in IndicesOf({ "bindTriangleIndicesTextures" })
  /\ \A t \in IndicesOf({ "bindTriangleIndicesTextures" }) :
       (t + 1) \in IndicesOf({ "drawArrays" })

\* C13 as claimed: within every drawLayer call the commands come in the order
\* RTC rebasing, uniform uploads, texture binding, draw: binds and uploads
\* happen before the draw they serve, the rebasing precedes the uniform
\* uploads and no texture bind precedes a uniform upload of the call.
\* (Stated for renderers none of whose compilations has failed.)
C13_RebaseUploadBindDraw ==
  (Reached /\ errors = null) =>
    /\ C13_AllBeforeTheDraw
    /\ \A r \in IndicesOf({ "createRTCViewMat" }), u \in IndicesOf(UniformOps) : r < u
    /\ \A t \in IndicesOf(TextureBindOps), u \in IndicesOf(UniformOps) : u < t

\* C13: within every drawLayer call the program bind (when needed) comes
\* first, followed by the projection uploads that go with it, then the bind
\* of the common textures, then the RTC rebasing, then the matrix, eye,
\* renderPass, log-depth and section-plane uploads, then for each non-empty
\* bucket the bind of its index textures and its draw: every bind and upload
\* happens before the draw it serves, and the index-texture binds are the
\* only texture binds that follow the uniform uploads.
C13_BindTexturesRebaseUploadDraw ==
  Reached =>
    LET common == IndicesOf({ "bindCommonTextures" })
        bind == IndicesOf({ "program.bind" })
    IN /\ C13_AllBeforeTheDraw
       /\ Cardinality(common) = 1
       /\ bind \subseteq { 1 }
       /\ \A c \in common :
            /\ \A u \in IndicesOf(UniformOps) : u < c => bind # { }
            /\ (locations # undefined) =>
                 \A u \in IndicesOf(UniformOps) :
                   (u < c) <=> (/\ lastCall.gl[u][2] # undefined
                                /\ lastCall.gl[u][2].name \in { "projMatrix", "logDepthBufFC" }
                                /\ bind # { }
                                /\ u <= 3)
            /\ \A r \in IndicesOf({ "createRTCViewMat" }) :
                 /\ c < r
                 /\ \A u \in IndicesOf(UniformOps) : c < u => r < u
            /\ \A t \in IndicesOf({ "bindTriangleIndicesTextures" }) :
                 /\ c < t
                 /\ \A u \in IndicesOf(UniformOps) : u < t

\* a call that bound the program, rebased, uploaded section planes and drew
\* two buckets
C13_Witness ==
  /\ Completed
  /\ IndicesOf({ "program.bind" }) # { }
  /\ IndicesOf({ "createRTCViewMat" }) # { }
  /\ Len(Uploads(lastCall.gl, PlaneNames)) > 0
  /\ Cardinality(IndicesOf({ "drawArrays" })) = 2

(* -------------------------------- C14 ---------------------------------- *)
\* C14: a drawLayer call writes nothing observable from outside but
\* frameCtx.lastProgramId and frameCtx.drawElements: the layer with its state,
\* texture state and model, the camera, the scene with its section-plane
\* state and the other fields of frameCtx are after the call what they were
\* before.
C14_DrawLayerWritesFrameCtxOnly ==
  [][ (lastCall'.op = "drawLayer") =>
        /\ lastCall'.after.dataTextureLayer = lastCall'.dataTextureLayer
        /\ lastCall'.after.camera = camera
        /\ scene' = scene
        /\ [frameCtx' EXCEPT !.lastProgramId = frameCtx.lastProgramId,
                             !.drawElements = frameCtx.drawElements] = frameCtx ]_vars

\* a call on a rotated layer with an origin that bound the program, rebased
\* and drew, and so wrote both fields of frameCtx
C14_Witness ==
  /\ Completed
  /\ CallLayer._state.origin # Vec3Zero
  /\ CallLayer.model.rotationMatrix = RotZMat4
  /\ Len(LivePlanes) > 0
  /\ frameCtx.lastProgramId # lastCall.frameCtxBefore.lastProgramId
  /\ frameCtx.drawElements = lastCall.frameCtxBefore.drawElements + 1
  /\ Len(Commands(lastCall.gl, "drawArrays")) > 0

(* -------------------------------- C16 ---------------------------------- *)
\* the buckets of the layer of the last call that hold indices and whose
\* index texture is there
DrawableBuckets ==
  SelectSeq(NonEmptyBuckets(CallLayer._state),
            LAMBDA b : hasIndicesTexture(CallLayer._state.textureState, b[1]))

\* C16: when the index texture of a bucket is absent, drawLayer skips the
\* drawArrays of that bucket only: the call runs to its end and issues the
\* draws of exactly the non-empty buckets whose texture is there.
C16_UnboundBucketSkipped ==
  (Reached /\ _program.errors = null /\ errors = null) =>
     /\ Completed
     /\ Commands(lastCall.gl, "drawArrays")
          = [j \in 1..Len(DrawableBuckets) |->
               << "drawArrays", "TRIANGLES", 0, DrawableBuckets[j][2] >>]
(* -------------------------------- C18 ----------------------------------- *)
EffectsOff ==
  /\ ~viewer.scene.pbrEnabled
  /\ ~viewer.scene.sao.enabled
  /\ ~viewer.scene.edgeMaterial.edges
EffectsOn ==
  /\ viewer.scene.pbrEnabled
  /\ viewer.scene.sao.enabled
  /\ viewer.scene.edgeMaterial.edges
FadeRunning ==
  /\ plugin._img # null
  /\ plugin._img.style = [visibility |-> "visible", opacity |-> OpacityOne]
  /\ plugin._pInterval # null
  /\ plugin.timers = { [id |-> plugin._pInterval.id, opacity |-> OpacityOne] }

\* C18: after a camera "matrix" event the three effects are off and fast
\* mode is on; while fast mode lasts they stay off, the ticks handled since
\* the most recent camera event sum to less than 600 ms and no fade has been
\* started; the first tick that brings the sum to 600 ms or more ends fast
\* mode, switches the three effects on and starts one fade, the only one of
\* the episode.
C18_EffectsOffWhileCameraMoves ==
  /\ (pluginCall.op = "matrix") =>
       (plugin.fastMode /\ EffectsOff /\ plugin.timer = timeoutDuration)
  /\ plugin.fastMode =>
       (EffectsOff /\ pluginCall.elapsed < timeoutDuration /\ pluginCall.fades = 0)
  /\ (pluginCall.op = "tick" /\ pluginCall.wasFast) =>
       IF pluginCall.elapsed >= timeoutDuration
       THEN ~plugin.fastMode /\ EffectsOn /\ pluginCall.fades = 1 /\ FadeRunning
       ELSE plugin.fastMode
  /\ ~plugin.fastMode => pluginCall.fades <= 1

\* a fast-mode episode ended by the tick that brought the sum to exactly 600
C18_Witness ==
  /\ pluginCall.op = "tick"
  /\ pluginCall.wasFast
  /\ ~plugin.fastMode
  /\ pluginCall.elapsed = timeoutDuration
  /\ pluginCall.fades = 1
  /\ EffectsOn
  /\ FadeRunning

(* -------------------------------- C17 ----------------------------------- *)
PlaneIndices == 0..(MaxPlanes + 1)
DeclarationLines ==
  UNION { { "uniform bool sectionPlaneActive" \o ToString(i) \o ";",
            "uniform vec3 sectionPlanePos" \o ToString(i) \o ";",
            "uniform vec3 sectionPlaneDir" \o ToString(i) \o ";" } : i \in PlaneIndices }
EvaluationLines ==
  UNION { { "if (sectionPlaneActive" \o ToString(i) \o ") {",
            "   dist += clamp(dot(-sectionPlaneDir" \o ToString(i) \o ".xyz, vWorldPosition.xyz - sectionPlanePos" \o ToString(i) \o ".xyz), 0.0, 1000.0);" } : i \in PlaneIndices }
IsDeclaration(line) == line \in DeclarationLines
IsEvaluation(line) == line \in EvaluationLines
\* the N triples and the N evaluations in ascending order
ExpectedDeclarations(N) ==
  LET d[i \in 0..N] ==
        IF i < N
        THEN << "uniform bool sectionPlaneActive" \o ToString(i) \o ";",
                "uniform vec3 sectionPlanePos" \o ToString(i) \o ";",
                "uniform vec3 sectionPlaneDir" \o ToString(i) \o ";" >> \o d[i + 1]
        ELSE << >>
  IN d[0]
ExpectedEvaluations(N) ==
  LET e[i \in 0..N] ==
        IF i < N
        THEN << "if (sectionPlaneActive" \o ToString(i) \o ") {",
                "   dist += clamp(dot(-sectionPlaneDir" \o ToString(i) \o ".xyz, vWorldPosition.xyz - sectionPlanePos" \o ToString(i) \o ".xyz), 0.0, 1000.0);" >> \o e[i + 1]
        ELSE << >>
  IN e[0]
\* the declarations come before main() and the evaluations after it
DeclaredBeforeMain(src) ==
  \A i, j \in 1..Len(src) :
    (IsDeclaration(src[i]) /\ src[j] = "void main(void) {") => i < j
EvaluatedInMain(src) ==
  \A i, j \in 1..Len(src) :
    (IsEvaluation(src[i]) /\ src[j] = "void main(void) {") => j < i
CountedPlanes(src, N) ==
  /\ SelectSeq(src, IsDeclaration) = ExpectedDeclarations(N)
  /\ SelectSeq(src, IsEvaluation) = ExpectedEvaluations(N)
  /\ DeclaredBeforeMain(src)
  /\ EvaluatedInMain(src)
BuiltPlanes == Len(built.a._sectionPlanesState.sectionPlanes)

\* C17: for a scene with N section planes, the fragment sources of the depth
\* renderer and of the instancing occlusion shader declare exactly the
\* uniforms sectionPlaneActive<i>, sectionPlanePos<i>, sectionPlaneDir<i> for
\* i = 0..N-1, in that order, evaluate the planes in the same order, declare
\* none when N = 0, and _allocate() builds a _uSectionPlanes table of N
\* entries naming the same uniforms in the same order.
C17_OneTriplePerSectionPlane ==
  built.built =>
    /\ CountedPlanes(built.sourceA.fragment, BuiltPlanes)
    /\ CountedPlanes(built.occlusionA, BuiltPlanes)
    /\ Len(built._uSectionPlanesA) = BuiltPlanes
    /\ \A i \in 1..BuiltPlanes :
         /\ built._uSectionPlanesA[i].active.name = "sectionPlaneActive" \o ToString(i - 1)
         /\ built._uSectionPlanesA[i].pos.name = "sectionPlanePos" \o ToString(i - 1)
         /\ built._uSectionPlanesA[i].dir.name = "sectionPlaneDir" \o ToString(i - 1)

\* sources built for a scene with as many planes as the bound allows, one of
\* them switched off
C17_Witness ==
  /\ built.built
  /\ BuiltPlanes = MaxPlanes
  /\ \E i \in 1..BuiltPlanes : ~built.a._sectionPlanesState.sectionPlanes[i].active
  /\ Len(SelectSeq(built.occlusionA, IsDeclaration)) = 3 * MaxPlanes
  /\ Len(SelectSeq(built.sourceA.fragment, IsDeclaration)) = 3 * MaxPlanes
  /\ Len(built._uSectionPlanesA) = MaxPlanes

(* -------------------------------- C15 ----------------------------------- *)
\* the object a vertex of the synthetic layer belongs to
ObjectOf(id) == (id \div 3) \div TrianglesPerObject
Culled(id) == shaded.vertex[id].gl_Position = CullPosition
Retained(id) ==
  \E corner \in 0..2 :
    shaded.vertex[id].gl_Position =
      clipPos(ObjectOf(id), (id \div 3) % TrianglesPerObject, corner)
OneObjectPerPass ==
  \A o1, o2 \in ObjectIndices :
    o1 # o2 => shaded.objects[o1].pass # shaded.objects[o2].pass

\* C15 as stated: an object whose pass flag equals renderPass is never culled,
\* whatever its colour alpha.
C15_MatchingPassNeverCulled ==
  shaded.run =>
    \A id \in VertexIDs :
      IF shaded.objects[ObjectOf(id)].pass = shaded.renderPass
      THEN Retained(id)
      ELSE Culled(id)

\* C15: an object whose pass flag differs from renderPass is culled (its
\* vertices get (3,3,3,1)); an object whose pass flag equals renderPass and
\* whose packed colour alpha is non-zero is retained (its vertices get the
\* transformed position of a corner of their own triangle); with alpha zero
\* it is culled too. In a layer with one object per pass the retained
\* triangles are those of the object whose flag equals renderPass, if its
\* alpha is non-zero, and none otherwise.
C15_PassFilterAndAlphaCull ==
  shaded.run =>
    /\ \A id \in VertexIDs :
         LET o == shaded.objects[ObjectOf(id)] IN
         IF o.pass = shaded.renderPass /\ o.alpha # 0
         THEN Retained(id)
         ELSE Culled(id)
    /\ OneObjectPerPass =>
         { id \in VertexIDs : ~Culled(id) } =
           { id \in VertexIDs :
               /\ shaded.objects[ObjectOf(id)].pass = shaded.renderPass
               /\ shaded.objects[ObjectOf(id)].alpha # 0 }

\* a layer with one object per pass, both visible, drawn in the pass of the
\* second object: the first is culled and the second retained
C15_Witness ==
  /\ shaded.run
  /\ OneObjectPerPass
  /\ \A o \in ObjectIndices : shaded.objects[o].alpha # 0
  /\ shaded.objects[1].pass = shaded.renderPass
  /\ \A id \in VertexIDs : (ObjectOf(id) = 0) => Culled(id)
  /\ \A id \in VertexIDs : (ObjectOf(id) = 1) => Retained(id)

(* -------------------------------- C21 ----------------------------------- *)
\* the flip test of the projection in use, on the object of vertex id
FlipTest(id) ==
  IF shaded.perspective
  THEN shaded.objects[ObjectOf(id)].awayFromEye
  ELSE shaded.objects[ObjectOf(id)].viewNormalZNegative
EmittedCorner(id, corner) ==
  shaded.vertex[id].gl_Position =
    clipPos(ObjectOf(id), (id \div 3) % TrianglesPerObject, corner)
\* the position of a line in the built vertex source (0 if absent)
LineOf(src, line) ==
  IF Emits(src, line) THEN CHOOSE i \in 1..Len(src) : src[i] = line ELSE 0
VertexSource == shaderSource(_program).vertex

\* C21: every vertex that is not culled is positions[2 - (v mod 3)] with the
\* view normal negated if the object is not solid and the flip test of the
\* projection in use holds (the eye test under a perspective projection,
\* viewNormal.z < 0 under an orthographic one), and positions[v mod 3] with
\* the view normal unchanged otherwise, solid objects included; in the built
\* source the flip comes after the face normal and before the world position.
C21_BackfaceFlipPolicy ==
  shaded.run =>
    /\ \A id \in VertexIDs :
         ~Culled(id) =>
           IF shaded.objects[ObjectOf(id)].solid # 1 /\ FlipTest(id)
           THEN EmittedCorner(id, 2 - (id % 3)) /\ shaded.vertex[id].viewNormal = "negated"
           ELSE EmittedCorner(id, id % 3) /\ shaded.vertex[id].viewNormal = "unchanged"
    /\ LineOf(VertexSource, "vec3 normal = normalize(cross(positions[2] - positions[0], positions[1] - positions[0]));") > 0
    /\ LineOf(VertexSource, "vec3 normal = normalize(cross(positions[2] - positions[0], positions[1] - positions[0]));")
         < LineOf(VertexSource, "if (solid != 1u) {")
    /\ LineOf(VertexSource, "if (solid != 1u) {")
         < LineOf(VertexSource, "vec4 worldPosition = sceneModelMatrix * (objectDecodeAndInstanceMatrix * vec4(position, 1.0)); ")

\* an orthographic draw retaining a flipped non-solid object and an unflipped
\* solid one whose test holds as well
C21_Witness ==
  /\ shaded.run
  /\ ~shaded.perspective
  /\ shaded.objects[0].solid = 0 /\ shaded.objects[0].viewNormalZNegative
  /\ shaded.objects[1].solid = 1 /\ shaded.objects[1].viewNormalZNegative
  /\ \A id \in VertexIDs : ~Culled(id)
  /\ EmittedCorner(0, 2) /\ shaded.vertex[0].viewNormal = "negated"
  /\ EmittedCorner(3 * TrianglesPerObject, 0)
  /\ shaded.vertex[3 * TrianglesPerObject].viewNormal = "unchanged"

(* -------------------------------- C22 ----------------------------------- *)
\* the three vertex ids of the triangle of vertex id
TriangleOf(id) == { (3 * (id \div 3)) + k : k \in 0..2 }

\* C22 as stated: the portion-id texel is addressed by polygonIndex itself,
\* column polygonIndex mod 4096 and row polygonIndex div 4096.
C22_AddressedByPolygonIndex ==
  shaded.run =>
    \A id \in LookupVertexIDs :
      /\ shaded.lookup[id].polygonIndex = id \div 3
      /\ shaded.lookup[id].column = (id \div 3) % 4096
      /\ shaded.lookup[id].row = (id \div 3) \div 4096

\* C22: polygonIndex is the vertex id divided by 3, and the portion-id texel
\* is addressed by polygonIndex divided by 8 (one texel per 8 triangles),
\* split with row width 4096: column (polygonIndex div 8) mod 4096 and row
\* (polygonIndex div 8) div 4096; the three vertices of a triangle get the
\* same address and resolve to the same object.
C22_AddressedByPackedPolygonIndex ==
  shaded.run =>
    /\ \A id \in LookupVertexIDs :
         /\ shaded.lookup[id].polygonIndex = id \div 3
         /\ shaded.lookup[id].column = ((id \div 3) \div 8) % 4096
         /\ shaded.lookup[id].row = ((id \div 3) \div 8) \div 4096
         /\ shaded.lookup[id].column \in 0..4095
    /\ \A id \in LookupVertexIDs :
         \A other \in TriangleOf(id) \cap LookupVertexIDs :
           /\ shaded.lookup[id].column = shaded.lookup[other].column
           /\ shaded.lookup[id].row = shaded.lookup[other].row
    /\ \A id \in VertexIDs :
         \A other \in TriangleOf(id) :
           shaded.vertex[id].objectIndex = shaded.vertex[other].objectIndex
    /\ \A id \in VertexIDs : shaded.vertex[id].objectIndex = ObjectOf(id)

\* lookups made in the first and in the second row of the portion-id
\* texture, and the vertices of the second object resolved to it
C22_Witness ==
  /\ shaded.run
  /\ shaded.lookup[(3 * 32767) + 2] = [polygonIndex |-> 32767, column |-> 4095, row |-> 0]
  /\ shaded.lookup[3 * 32768] = [polygonIndex |-> 32768, column |-> 0, row |-> 1]
  /\ shaded.lookup[3 * 32776] = [polygonIndex |-> 32776, column |-> 1, row |-> 1]
  /\ \A id \in VertexIDs : (id \div 3 >= TrianglesPerObject) => shaded.vertex[id].objectIndex = 1

(* -------------------------------- C23 ----------------------------------- *)
\* a destroy() call that is not a repetition without effect
DestroyStep == lastCall'.op = "destroy" /\ lastCall' # lastCall

\* the drawLayer call that follows destroy() does what the one that follows
\* webglContextRestored() does: it compiles once and, if the compilation
\* succeeds and no error was recorded before, binds and draws
DrawsAsAfterContextLoss ==
  (IsDrawLayer /\ lastCall.afterDestroy) =>
    /\ lastCall.programBefore = null
    /\ lastCall.compiles = 1
    /\ _program # null
    /\ IF _program.errors = null /\ lastCall.errorsBefore = null
       THEN /\ Completed
            /\ Len(Commands(lastCall.gl, "program.bind")) = 1
            /\ Len(Commands(lastCall.gl, "drawArrays"))
                 = Len(NonEmptyBuckets(CallLayer._state))
            /\ frameCtx.drawElements = lastCall.frameCtxBefore.drawElements + 1
       ELSE /\ lastCall.gl = << >>
            /\ frameCtx = lastCall.frameCtxBefore

\* C23: destroy() calls program.destroy() once if a program is held and not
\* at all otherwise, and leaves _program null; a destroy() that follows a
\* destroy() calls nothing; the program destroyed is the one that was held,
\* and every program that comes to be held is a new one, so that none is
\* destroyed twice; and a drawLayer call made after destroy() compiles a new
\* program and goes on as after a context loss.
C23_DestroyIdempotentNotTerminal ==
  /\ [][ DestroyStep =>
           /\ _program' = null
           /\ lastCall'.destroyed =
                (IF _program # null THEN << _program.id >> ELSE << >>)
           /\ (lastCall.op = "destroy") => lastCall'.destroyed = << >>
           /\ \A i \in 1..Len(lastCall'.destroyed) :
                /\ lastCall'.destroyed[i] < nextProgramId
                /\ lastCall'.destroyed[i] \notin programs' ]_vars
  /\ [][ (_program' # null /\ _program' # _program) =>
           /\ _program'.id = nextProgramId
           /\ nextProgramId' = nextProgramId + 1 ]_vars
  /\ [](_program # null => _program.id < nextProgramId)
  /\ []DrawsAsAfterContextLoss

\* a drawLayer call made after destroy() that compiled a second program and
\* drew with it, the first program being no longer allocated
C23_Witness ==
  /\ Completed
  /\ lastCall.afterDestroy
  /\ lastCall.programBefore = null
  /\ lastCall.compiles = 1
  /\ _program # null /\ _program.id = 2
  /\ programs = { 2 }
  /\ Len(Commands(lastCall.gl, "drawArrays")) > 0

(* -------------------------------- C24 ----------------------------------- *)
\* C24: destroy() of the plugin completes without error from every reachable
\* state, the one in which no fade image was ever created included, and
\* leaves no fade interval active, both subscriptions removed and the fade
\* image detached.
C24_PluginDestroyCompletes ==
  (pluginCall.op = "destroy") =>
    /\ ~pluginCall.threw
    /\ plugin.timers = { }
    /\ plugin._pInterval = null
    /\ ~plugin.subscribed
    /\ plugin._img = null

(* -------------------------------- C25 ----------------------------------- *)
ImageHidden ==
  plugin._img # null =>
    plugin._img.style = [visibility |-> "hidden", opacity |-> OpacityZero]

\* C25: at most one fade interval is scheduled at a time; _pInterval is
\* non-null exactly while one is scheduled, and names it; a scheduled
\* interval implies that the fade image exists; and while fast mode is on no
\* interval is scheduled and the fade image, if created, is hidden.
C25_AtMostOneFadeInterval ==
  /\ Cardinality(plugin.timers) <= 1
  /\ (plugin._pInterval # null) <=> (plugin.timers # { })
  /\ \A t \in plugin.timers : t.id = plugin._pInterval.id
  /\ (plugin.timers # { }) => plugin._img # null
  /\ plugin.fastMode => (plugin.timers = { } /\ plugin._pInterval = null /\ ImageHidden)

\* a camera event that entered fast mode after a fade had been started: the
\* image exists, is hidden, and no interval is left
C25_Witness ==
  /\ pluginCall.op = "matrix"
  /\ ~pluginCall.wasFast
  /\ plugin.fastMode
  /\ plugin._img # null
  /\ plugin._img.style.visibility = "hidden"
  /\ plugin.timers = { }
  /\ plugin._pInterval = null

(* -------------------------------- C26 ----------------------------------- *)
\* the number of times the callback of a scheduled interval has fired
Firings(t) ==
  (OpacityOne.tenths - t.opacity.tenths) \div ((10 * interval) \div fadeMillisecs)
FadeEnded ==
  /\ plugin.timers = { }
  /\ plugin._pInterval = null
  /\ ImageHidden

\* C26: a fade ends within fadeMillisecs / 50 firings of its interval
\* callback: an interval still scheduled has fired fewer times than that, and
\* the firing that ends the fade leaves the image at opacity 0, hidden, with
\* the interval cleared and _pInterval null; a camera event that enters fast
\* mode or a send("clear") leaves that same end state at once.
C26_FadeEndsWithinItsSteps ==
  /\ \A t \in plugin.timers : Firings(t) < fadeMillisecs \div interval
  /\ (pluginCall.op = "interval" /\ plugin.timers = { }) => FadeEnded
  /\ (pluginCall.op = "send") => FadeEnded
  /\ (pluginCall.op = "matrix" /\ ~pluginCall.wasFast) => FadeEnded

====
